---- MODULE Spec2Model ----
(***************************************************************************)
(* A model of the genologics LIMS client: the session (Lims) with its      *)
(* entity cache, the Entity constructor pair __new__/__init__, the fetch   *)
(* state operation Entity.get, the attribute descriptors' read path, the   *)
(* batch retrieve call and the paged listing calls.                         *)
(*                                                                          *)
(* Objects live in `heap` (object identity = index).  `last` records the    *)
(* operation that has just returned: its arguments, the state of the        *)
(* receiver before the call, its result and the Document Store calls it     *)
(* made.  `udf` is the UdfDictionary under study, with the user-defined     *)
(* field elements of its entity's document.                                 *)
(***************************************************************************)
EXTENDS Integers, Sequences, FiniteSets, TLC

VARIABLES heap, cache, last, pc, lst, udf

vars == <<heap, cache, last, pc, lst, udf>>

(* ------------------------------------------------------------------ *)
(* Bounds                                                             *)
(* ------------------------------------------------------------------ *)
MaxObjects == 2
MaxFetched == 1
MaxSaved == 1
MaxPages == 3
MaxOps == 2
MaxFields == 3

(* ------------------------------------------------------------------ *)
(* Values                                                             *)
(* ------------------------------------------------------------------ *)
\* Python's None for a URI or an id (both are falsy: `if not uri`).
None == <<>>

\* Entity ids, each one path segment.
IDS == {<<"1">>, <<"2">>}

\* Entity._URI of the modelled entity class (Sample._URI = 'samples').
_URI == "samples"

\* Lims.get_uri: ['api', VERSION] + segments joined under the base URI;
\* a query, when given, is appended after '?'.
get_uri(segments) == <<"api", "v2">> \o segments

URIS == {get_uri(<<_URI>> \o i) : i \in IDS}

Values == {"a", "b"}

FETCH_STATE_NONE == 0
FETCH_STATE_OVERVIEW == 1
FETCH_STATE_DETAILS == 2
FETCH_STATE_OVERVIEW_OR_DETAILS == 3

FetchStates == FETCH_STATE_NONE .. FETCH_STATE_OVERVIEW_OR_DETAILS

\* Python's `&` on non-negative integers.
RECURSIVE BitAnd(_, _)
BitAnd(a, b) ==
    IF a = 0 \/ b = 0 THEN 0
    ELSE (a % 2) * (b % 2) + 2 * BitAnd(a \div 2, b \div 2)

\* instance.root: None, or an XML element.
NoRoot == [tag |-> "None"]
Doc(u, v) == [tag |-> "doc", uri |-> u, name |-> v]

\* The bag attribute of an entity: Entity.__init__ never sets it.
NoAttr == [attr |-> "missing"]

\* FetchFromAttributesBag(node, bag_keys): the listed attributes of a node.
Bag(keys, value) == [tag |-> "bag", keys |-> keys, value |-> value]

NoCalls == <<>>
Call(method, uri, params) == [method |-> method, uri |-> uri, params |-> params]

EmptyCache == [u \in {} |-> 0]

\* An HTTP response: the status code and the parsed content.
Response(status_code, content) == [status_code |-> status_code, content |-> content]

NotFound == Response(404, NoRoot)

\* What the server may answer to a GET of an entity's URI.
Responses(uri) == {Response(200, Doc(uri, v)) : v \in Values} \cup {NotFound}

(* ------------------------------------------------------------------ *)
(* Entity                                                              *)
(* ------------------------------------------------------------------ *)
\* An object object.__new__ has just made: no instance attribute is set.
\* (created_new is not an attribute: it remembers the _create_new flag
\* the object was initialised with.)
Blank ==
    [lims |-> FALSE, uri |-> None, root |-> NoRoot,
     fetch_state |-> FETCH_STATE_NONE, bag |-> NoAttr, created_new |-> FALSE]

\* Entity.__new__ without its precondition: an object is made whatever
\* the arguments.
Entity__new__unchecked(c, n, uri, id, _create_new) ==
    LET u == IF uri = None /\ id # None THEN get_uri(<<_URI>> \o id) ELSE uri
    IN  IF c # EmptyCache /\ u \in DOMAIN c
        THEN [result |-> "ok", obj |-> c[u]]
        ELSE [result |-> "ok", obj |-> n + 1]

\* The object Entity.__new__ returns: [result, obj], obj an index into the
\* heap (n + 1: a new object).  `c` is lims.cache, `n` the heap's length.
Entity__new__(c, n, uri, id, _create_new) ==
    LET u == IF uri = None /\ id # None THEN get_uri(<<_URI>> \o id) ELSE uri
    IN  IF uri = None /\ id = None /\ ~_create_new
        THEN [result |-> "ValueError", obj |-> 0]
        ELSE IF c # EmptyCache
             THEN IF u \in DOMAIN c
                  THEN [result |-> "ok", obj |-> c[u]]
                  ELSE [result |-> "ok", obj |-> n + 1]
             ELSE [result |-> "ok", obj |-> n + 1]

\* Entity.__init__ without the _create_new test: every instance gets
\* the URI computed from its arguments.
Entity__init__attached(self, c, obj, uri, id, _create_new, fetch_state) ==
    LET u == IF uri = None THEN get_uri(<<_URI>> \o id) ELSE uri
    IN  IF self.lims
        THEN [self |-> self, cache |-> c]
        ELSE [self |-> [self EXCEPT !.lims = TRUE, !.uri = u, !.root = NoRoot,
                                    !.fetch_state = fetch_state,
                                    !.created_new = _create_new],
              cache |-> c]

\* Entity.__init__ on the object `self` (heap index obj):
\* [self, cache] afterwards.
Entity__init__(self, c, obj, uri, id, _create_new, fetch_state) ==
    LET u == IF uri = None THEN get_uri(<<_URI>> \o id) ELSE uri
        init(x) == [self EXCEPT !.lims = TRUE, !.uri = x, !.root = NoRoot,
                                !.fetch_state = fetch_state,
                                !.created_new = _create_new]
    IN  IF ~_create_new
        THEN IF self.lims
             THEN [self |-> self, cache |-> c]
             ELSE [self |-> init(u),
                   cache |-> IF c # EmptyCache
                             THEN [k \in DOMAIN c \cup {u} |->
                                      IF k = u THEN obj ELSE c[k]]
                             ELSE c]
        ELSE [self |-> init(uri), cache |-> c]

\* klass(lims, uri=..., id=..., _create_new=..., fetch_state=...): __new__,
\* then __init__ on the object it returned.  [result, obj, heap, cache].
NewEntity(h, c, uri, id, _create_new, fetch_state) ==
    LET r == Entity__new__(c, Len(h), uri, id, _create_new)
    IN  IF r.result # "ok"
        THEN [result |-> r.result, obj |-> 0, heap |-> h, cache |-> c]
        ELSE LET self == IF r.obj <= Len(h) THEN h[r.obj] ELSE Blank
                 i == Entity__init__(self, c, r.obj, uri, id, _create_new,
                                     fetch_state)
             IN  [result |-> "ok", obj |-> r.obj,
                  heap |-> IF r.obj <= Len(h)
                           THEN [h EXCEPT ![r.obj] = i.self]
                           ELSE Append(h, i.self),
                  cache |-> i.cache]

\* klass(lims, uri=uri, bag=bag, _create_new=...), the call of
\* NestedEntityListDescriptor.__get__: Entity.__new__ takes no bag.
NewEntityWithBag(h, c, uri, bag, _create_new) ==
    [result |-> "TypeError", obj |-> 0, heap |-> h, cache |-> c]

(* ------------------------------------------------------------------ *)
(* Document Store                                                      *)
(* ------------------------------------------------------------------ *)
\* A URL as a request carries it: the path and the query string in it.
Url(path, query) == [path |-> path, query |-> query]

\* Lims.parse_response: [result, root, message].  With a status other
\* than 200, a body that is not XML (no body, or the text of a body
\* tagged "text") raises an HTTP error with the body as its message, a
\* document with a message element one with the status, the message and
\* the suggested actions; for a document without one raise_for_status
\* raises for the statuses 400 to 599 and returns for the others, and
\* node.text is then read of None.
parse_response(response) ==
    IF response.status_code = 200
    THEN [result |-> "ok", root |-> response.content, message |-> <<>>]
    ELSE IF response.content.tag \in {"None", "text"}
    THEN [result |-> "HTTPError", root |-> NoRoot,
          message |-> [status |-> <<>>,
                       parts |-> IF response.content.tag = "text"
                                 THEN <<response.content.text>> ELSE <<"">>]]
    ELSE IF "message" \notin DOMAIN response.content
    THEN IF response.status_code \in 400 .. 599
         THEN [result |-> "HTTPError", root |-> NoRoot,
               message |-> [status |-> <<response.status_code>>,
                            parts |-> <<"Error">>]]
         ELSE [result |-> "AttributeError", root |-> NoRoot,
               message |-> <<>>]
    ELSE [result |-> "HTTPError", root |-> NoRoot,
          message |-> [status |-> <<response.status_code>>,
                       parts |-> <<response.content.message>>
                                     \o response.content.suggested]]

\* Lims.get(uri, params): one GET, its response parsed; requests refuses
\* a URL of None before anything is sent.
Lims_get(uri, params, response) ==
    IF uri.path = None
    THEN [result |-> "MissingSchema", root |-> NoRoot, calls |-> NoCalls,
          message |-> <<>>]
    ELSE [result |-> parse_response(response).result,
          root |-> parse_response(response).root,
          message |-> parse_response(response).message,
          calls |-> <<Call("GET", uri, params)>>]

\* The required_fetch_state argument: absent (the default, None) or a number.
NoMask == [some |-> FALSE, v |-> 0]
Mask(m) == [some |-> TRUE, v |-> m]
MaskArgs == {NoMask} \cup {Mask(m) : m \in 0 .. FETCH_STATE_OVERVIEW_OR_DETAILS + 1}

\* The assertion of Entity.get; Python 2 orders None below every number.
ValidMask(required) ==
    /\ required.some
    /\ FETCH_STATE_NONE < required.v
    /\ required.v <= FETCH_STATE_OVERVIEW_OR_DETAILS

\* Entity.get without its assertion: an invalid mask is treated as a
\* mask that nothing satisfies.
Entity_get_unasserted(self, force, required, response) ==
    IF ~force /\ ValidMask(required)
              /\ BitAnd(self.fetch_state, required.v) # 0
    THEN [result |-> "ok", self |-> self, calls |-> NoCalls]
    ELSE LET g == Lims_get(Url(self.uri, <<>>), <<>>, response)
         IN  IF g.result # "ok"
             THEN [result |-> g.result, self |-> self, calls |-> g.calls]
             ELSE [result |-> "ok",
                   self |-> [self EXCEPT !.root = g.root,
                                         !.fetch_state = FETCH_STATE_DETAILS],
                   calls |-> g.calls]

\* Entity.get without its force argument: a satisfied fetch state always
\* returns without a request.
Entity_get_unforced(self, force, required, response) ==
    IF ~ValidMask(required)
    THEN [result |-> "AssertionError", self |-> self, calls |-> NoCalls]
    ELSE IF BitAnd(self.fetch_state, required.v) # 0
         THEN [result |-> "ok", self |-> self, calls |-> NoCalls]
         ELSE LET g == Lims_get(Url(self.uri, <<>>), <<>>, response)
              IN  IF g.result # "ok"
                  THEN [result |-> g.result, self |-> self, calls |-> g.calls]
                  ELSE [result |-> "ok",
                        self |-> [self EXCEPT !.root = g.root,
                                              !.fetch_state = FETCH_STATE_DETAILS],
                        calls |-> g.calls]

\* Entity.get that asks the server again when the request fails, and
\* forgets the document it held.
Entity_get_retrying(self, force, required, response) ==
    IF ~ValidMask(required)
    THEN [result |-> "AssertionError", self |-> self, calls |-> NoCalls]
    ELSE IF ~force /\ BitAnd(self.fetch_state, required.v) # 0
         THEN [result |-> "ok", self |-> self, calls |-> NoCalls]
         ELSE LET g == Lims_get(Url(self.uri, <<>>), <<>>, response)
              IN  IF g.result # "ok"
                  THEN [result |-> g.result,
                        self |-> [self EXCEPT !.root = NoRoot,
                                              !.fetch_state = FETCH_STATE_NONE],
                        calls |-> g.calls \o g.calls]
                  ELSE [result |-> "ok",
                        self |-> [self EXCEPT !.root = g.root,
                                              !.fetch_state = FETCH_STATE_DETAILS],
                        calls |-> g.calls]

\* Entity.get(force, required_fetch_state) on the entity record `self`:
\* [result, self, calls].
Entity_get(self, force, required, response) ==
    IF ~ValidMask(required)
    THEN [result |-> "AssertionError", self |-> self, calls |-> NoCalls]
    ELSE IF ~force /\ BitAnd(self.fetch_state, required.v) # 0
         THEN [result |-> "ok", self |-> self, calls |-> NoCalls]
         ELSE LET g == Lims_get(Url(self.uri, <<>>), <<>>, response)
              IN  IF g.result # "ok"
                  THEN [result |-> g.result, self |-> self, calls |-> g.calls]
                  ELSE [result |-> "ok",
                        self |-> [self EXCEPT !.root = g.root,
                                              !.fetch_state = FETCH_STATE_DETAILS],
                        calls |-> g.calls]

(* ------------------------------------------------------------------ *)
(* Descriptors (attribute bindings)                                    *)
(* ------------------------------------------------------------------ *)
\* Descriptor declarations: the descriptor class, the tag and the fetch
\* state the declaration on the entity class names.
Bindings ==
    { [kind |-> "StringDescriptor", tag |-> "name",
       declared |-> FETCH_STATE_OVERVIEW_OR_DETAILS],
      [kind |-> "StringDescriptor", tag |-> "open-date",
       declared |-> FETCH_STATE_DETAILS],
      [kind |-> "StringDescriptor", tag |-> "attached-to",
       declared |-> FETCH_STATE_OVERVIEW],
      [kind |-> "OnlyInOverviewDescriptor", tag |-> "name",
       declared |-> FETCH_STATE_OVERVIEW],
      [kind |-> "UdfDictionaryDescriptor", tag |-> "udf",
       declared |-> FETCH_STATE_DETAILS] }

\* Element.find(tag).text on a loaded root; the string "None" for None.
NodeText(root, tag) == IF tag = "name" THEN root.name ELSE "None"

\* BaseDescriptor.is_available_in_bag / TagDescriptor.is_available_in_bag:
\* "True", "False", or the error reading instance.bag raises.
is_available_in_bag(d, self) ==
    IF d.kind = "UdfDictionaryDescriptor" THEN "False"
    ELSE IF self.bag = NoAttr THEN "AttributeError"
    ELSE IF self.bag.tag # "None" /\ self.root = NoRoot /\ d.tag \in self.bag.keys
         THEN "True" ELSE "False"

\* TagDescriptor.get_from_bag: instance.bag[self.tag].
get_from_bag(d, self) ==
    IF self.bag = NoAttr THEN [result |-> "AttributeError", value |-> "None"]
    ELSE IF self.bag.tag = "None" THEN [result |-> "TypeError", value |-> "None"]
    ELSE IF d.tag \notin self.bag.keys THEN [result |-> "KeyError", value |-> "None"]
    ELSE [result |-> "ok", value |-> self.bag.value]

\* The required_fetch_state argument of the instance.get() call that the
\* descriptors make: none is passed, whatever the declaration names.
EnsureMask(d) == NoMask

\* get_from_loaded of the descriptor classes:
\* [result, value, self, calls, ensured], ensured the masks Entity.get was
\* called with.
get_from_loaded(d, self, response) ==
    IF d.kind = "OnlyInOverviewDescriptor"
    THEN [result |-> get_from_bag(d, self).result,
          value |-> get_from_bag(d, self).value,
          self |-> self, calls |-> NoCalls, ensured |-> <<>>]
    ELSE LET g == Entity_get(self, FALSE, EnsureMask(d), response)
         IN  IF g.result # "ok"
             THEN [result |-> g.result, value |-> "None",
                   self |-> g.self, calls |-> g.calls,
                   ensured |-> <<EnsureMask(d)>>]
             ELSE [result |-> "ok",
                   value |-> IF d.kind = "UdfDictionaryDescriptor"
                             THEN "UdfDictionary"
                             ELSE NodeText(g.self.root, d.tag),
                   self |-> g.self, calls |-> g.calls,
                   ensured |-> <<EnsureMask(d)>>]

\* BaseDescriptor.__get__: the bag when it answers, else the loaded root.
Descriptor__get__(d, self, response) ==
    LET a == is_available_in_bag(d, self)
    IN  IF a = "AttributeError"
        THEN [result |-> "AttributeError", value |-> "None",
              self |-> self, calls |-> NoCalls, ensured |-> <<>>]
        ELSE IF a = "True"
        THEN [result |-> get_from_bag(d, self).result,
              value |-> get_from_bag(d, self).value,
              self |-> self, calls |-> NoCalls, ensured |-> <<>>]
        ELSE get_from_loaded(d, self, response)

\* node.text = str(value) on the element `tag` of a root (created when it
\* is absent); the documents here carry the element name only.
SetText(root, tag, value) ==
    IF tag = "name" /\ root # NoRoot THEN [root EXCEPT !.name = value] ELSE root

\* A write-through __set__: the entity is PUT before the write is made.
Descriptor__set__through(d, self, value, response) ==
    LET g == Entity_get(self, FALSE, EnsureMask(d), response)
        put == <<[method |-> "PUT", uri |-> Url(self.uri, <<>>),
                  params |-> <<>>, data |-> self.root]>>
    IN  IF g.result # "ok"
        THEN [result |-> g.result, self |-> g.self, calls |-> put \o g.calls,
              ensured |-> <<EnsureMask(d)>>]
        ELSE [result |-> "ok",
              self |-> [g.self EXCEPT
                           !.root = SetText(g.self.root, d.tag, value)],
              calls |-> put \o g.calls, ensured |-> <<EnsureMask(d)>>]

\* __set__ of the descriptor classes: [result, self, calls, ensured].
\* OnlyInOverviewDescriptor.__set__ does nothing; the others call
\* instance.get() and then change the root in place.
Descriptor__set__(d, self, value, response) ==
    IF d.kind = "OnlyInOverviewDescriptor"
    THEN [result |-> "ok", self |-> self, calls |-> NoCalls, ensured |-> <<>>]
    ELSE LET g == Entity_get(self, FALSE, EnsureMask(d), response)
         IN  IF g.result # "ok"
             THEN [result |-> g.result, self |-> g.self, calls |-> g.calls,
                   ensured |-> <<EnsureMask(d)>>]
             ELSE [result |-> "ok",
                   self |-> [g.self EXCEPT
                                !.root = SetText(g.self.root, d.tag, value)],
                   calls |-> g.calls, ensured |-> <<EnsureMask(d)>>]

(* ------------------------------------------------------------------ *)
(* Saving: put, post, create, advance                                  *)
(* ------------------------------------------------------------------ *)
\* A PUT or POST as the server receives it: the call and the data sent.
Submit(method, uri, data) ==
    [method |-> method, uri |-> uri, params |-> <<>>, data |-> data]

\* requests refuses a URL that does not start with the scheme and host of
\* the base URI: None, or a path built from the text of None.
HasSchema(path) == path # None /\ Head(path) = "api"

\* Lims.put(uri, data): one PUT, its response parsed.
Lims_put(uri, data, response) ==
    IF ~HasSchema(uri.path)
    THEN [result |-> "MissingSchema", root |-> NoRoot, calls |-> NoCalls,
          message |-> <<>>]
    ELSE [result |-> parse_response(response).result,
          root |-> parse_response(response).root,
          message |-> parse_response(response).message,
          calls |-> <<Submit("PUT", uri, data)>>]

\* Lims.post(uri, data): one POST, its response parsed.
Lims_post(uri, data, response) ==
    IF ~HasSchema(uri.path)
    THEN [result |-> "MissingSchema", root |-> NoRoot, calls |-> NoCalls,
          message |-> <<>>]
    ELSE [result |-> parse_response(response).result,
          root |-> parse_response(response).root,
          message |-> parse_response(response).message,
          calls |-> <<Submit("POST", uri, data)>>]

\* Lims.tostring(ElementTree(root)): the serialized root; ElementTree
\* asserts that it has a root element.
tostring(root) ==
    IF root = NoRoot THEN [result |-> "AssertionError", data |-> NoRoot]
    ELSE [result |-> "ok", data |-> root]

\* Entity.put: [result, self, calls, asked], asked the URIs handed to the
\* Lims methods.  The parsed response is dropped.
Entity_put(self, response) ==
    LET data == tostring(self.root)
        p == Lims_put(Url(self.uri, <<>>), data.data, response)
    IN  IF data.result # "ok"
        THEN [result |-> data.result, self |-> self, calls |-> NoCalls,
              asked |-> <<>>]
        ELSE [result |-> p.result, self |-> self, calls |-> p.calls,
              asked |-> <<self.uri>>]

\* Entity.post: as put, with POST.
Entity_post(self, response) ==
    LET data == tostring(self.root)
        p == Lims_post(Url(self.uri, <<>>), data.data, response)
    IN  IF data.result # "ok"
        THEN [result |-> data.result, self |-> self, calls |-> NoCalls,
              asked |-> <<>>]
        ELSE [result |-> p.result, self |-> self, calls |-> p.calls,
              asked |-> <<self.uri>>]

\* Step.advance: POST of the serialized root to "<uri>/advance"; the
\* parsed response becomes the root.
Step_advance(self, response) ==
    LET uri == (IF self.uri = None THEN <<"None">> ELSE self.uri)
                   \o <<"advance">>
        data == tostring(self.root)
        p == Lims_post(Url(uri, <<>>), data.data, response)
    IN  IF data.result # "ok"
        THEN [result |-> data.result, self |-> self, calls |-> NoCalls,
              asked |-> <<>>]
        ELSE IF p.result # "ok"
        THEN [result |-> p.result, self |-> self, calls |-> p.calls,
              asked |-> <<uri>>]
        ELSE [result |-> "ok", self |-> [self EXCEPT !.root = p.root],
              calls |-> p.calls, asked |-> <<uri>>]

\* Entity.id: the last segment of the path of the URI; urlsplit(None)
\* raises.
Entity_id(self) ==
    IF self.uri = None THEN [result |-> "AttributeError", value |-> None]
    ELSE [result |-> "ok", value |-> <<self.uri[Len(self.uri)]>>]

\* The body of Entity._create after instance = cls(lims, _create_new=True),
\* n the outcome of that construction: a new root element, and the
\* keywords `kw` (none, or one) set through their descriptors.  hasattr is
\* false when reading the attribute raises.  [result, obj, heap, cache].
Entity__create_attributes(n, kw, response) ==
    LET instance == [n.heap[n.obj] EXCEPT !.root = Doc(None, "None")]
        has == Descriptor__get__(kw[1].d, instance, response)
        set == Descriptor__set__(kw[1].d, has.self, kw[1].value, response)
        done(r, self) == [result |-> r, obj |-> n.obj,
                          heap |-> [n.heap EXCEPT ![n.obj] = self],
                          cache |-> n.cache]
    IN  IF kw = <<>> THEN done("ok", instance)
        ELSE IF has.result # "ok" THEN done("TypeError", has.self)
        ELSE done(set.result, set.self)

\* Entity._create(lims, **kwargs): a detached instance with its attributes.
Entity__create(h, c, kw, response) ==
    Entity__create_attributes(
        NewEntity(h, c, None, None, TRUE, FETCH_STATE_NONE), kw, response)

\* The body of Entity.create after instance = cls._create(...), i the
\* outcome of _create: POST of the serialized root to the resource root;
\* the parsed response becomes the root and its uri attribute the URI.
\* [result, obj, heap, cache, calls].
Entity_create_post(i, response) ==
    LET p == Lims_post(Url(get_uri(<<_URI>>), <<>>),
                       tostring(i.heap[i.obj].root).data, response)
    IN  IF i.result # "ok"
        THEN [result |-> i.result, obj |-> i.obj, heap |-> i.heap,
              cache |-> i.cache, calls |-> NoCalls]
        ELSE IF p.result # "ok"
        THEN [result |-> p.result, obj |-> i.obj, heap |-> i.heap,
              cache |-> i.cache, calls |-> p.calls]
        ELSE [result |-> "ok", obj |-> i.obj,
              heap |-> [i.heap EXCEPT ![i.obj].root = p.root,
                                      ![i.obj].uri = p.root.uri],
              cache |-> i.cache, calls |-> p.calls]

\* Entity.create(lims, **kwargs): _create, then the POST.
Entity_create(h, c, kw, response) ==
    Entity_create_post(Entity__create(h, c, kw, response), response)

(* ------------------------------------------------------------------ *)
(* Nested entity lists                                                 *)
(* ------------------------------------------------------------------ *)
\* The attribute names a NestedEntityListDescriptor is to harvest.
bag_keys == {"name"}

\* rootnode.findall(self.tag) on a loaded root.
NestedNodes(root) ==
    IF "members" \in DOMAIN root THEN root.members ELSE <<>>

\* The loop of NestedEntityListDescriptor.__get__ over the nodes: each
\* child is constructed with the bag of its node.
\* acc = [result, heap, cache, out].
RECURSIVE NestedChildren(_, _)
NestedChildren(nodes, acc) ==
    IF nodes = <<>> \/ acc.result # "ok" THEN acc
    ELSE LET node == Head(nodes)
             n == NewEntityWithBag(acc.heap, acc.cache, node.uri,
                                   Bag(bag_keys, node.name), node.uri = None)
         IN  NestedChildren(Tail(nodes),
                 [result |-> n.result, heap |-> n.heap, cache |-> n.cache,
                  out |-> IF n.result = "ok" THEN Append(acc.out, n.obj)
                          ELSE acc.out])

\* NestedEntityListDescriptor.__get__ on the entity at heap index o:
\* [result, heap, cache, calls, out, ensured].
NestedEntityListDescriptor__get__(h, c, o, response) ==
    LET g == Entity_get(h[o], FALSE, NoMask, response)
        h1 == [h EXCEPT ![o] = g.self]
        r == NestedChildren(NestedNodes(g.self.root),
                 [result |-> "ok", heap |-> h1, cache |-> c, out |-> <<>>])
    IN  IF g.result # "ok"
        THEN [result |-> g.result, heap |-> h1, cache |-> c,
              calls |-> g.calls, out |-> <<>>, ensured |-> <<NoMask>>]
        ELSE [result |-> r.result, heap |-> r.heap, cache |-> r.cache,
              calls |-> g.calls, out |-> r.out, ensured |-> <<NoMask>>]

\* A document whose nested list holds the members ms, in that order.
ListingDocs(u, ms) ==
    [tag |-> "doc", uri |-> u, name |-> "None", members |-> ms]

\* NestedExpandedEntityListDescriptor.__get__ on the entity at heap index
\* o: the fetch, then for the first node klass(lims, uri=...) and
\* set_temporary_root, a method no entity class defines.
NestedExpandedEntityListDescriptor__get__(h, c, o, response) ==
    LET g == Entity_get(h[o], FALSE, NoMask, response)
        h1 == [h EXCEPT ![o] = g.self]
        nodes == NestedNodes(g.self.root)
        n == NewEntity(h1, c, Head(nodes).uri, None, FALSE, FETCH_STATE_NONE)
    IN  IF g.result # "ok"
        THEN [result |-> g.result, heap |-> h1, cache |-> c,
              calls |-> g.calls, out |-> <<>>, ensured |-> <<NoMask>>]
        ELSE IF nodes = <<>>
        THEN [result |-> "ok", heap |-> h1, cache |-> c,
              calls |-> g.calls, out |-> <<>>, ensured |-> <<NoMask>>]
        ELSE [result |-> IF n.result = "ok" THEN "AttributeError"
                         ELSE n.result,
              heap |-> n.heap, cache |-> n.cache,
              calls |-> g.calls, out |-> <<>>, ensured |-> <<NoMask>>]

(* ------------------------------------------------------------------ *)
(* Batch retrieve                                                      *)
(* ------------------------------------------------------------------ *)
\* The loop of Lims.get_batch over the children of the response: each is
\* looked up with klass(lims, uri=...) and given the child as its root.
\* acc = [heap, cache, out].
RECURSIVE BatchNodes(_, _)
BatchNodes(nodes, acc) ==
    IF nodes = <<>> THEN acc
    ELSE LET n == NewEntity(acc.heap, acc.cache, Head(nodes).uri, None, FALSE,
                            FETCH_STATE_NONE)
         IN  BatchNodes(Tail(nodes),
                 [heap |-> [n.heap EXCEPT ![n.obj].root = Head(nodes)],
                  cache |-> n.cache,
                  out |-> Append(acc.out, n.obj)])

\* Lims.get_batch(instances): [result, heap, cache, calls, out].
Lims_get_batch(h, c, instances, response) ==
    LET links == [i \in 1 .. Len(instances) |-> h[instances[i]].uri]
        call == Call("POST", Url(get_uri(<<_URI, "batch/retrieve">>), <<>>), <<>>)
        fail(r, calls) == [result |-> r, heap |-> h, cache |-> c,
                           calls |-> calls, out |-> <<>>]
    IN  IF instances = <<>> THEN fail("ok", NoCalls)
        ELSE IF \E i \in 1 .. Len(links) : links[i] = None
        THEN fail("TypeError", NoCalls)
        ELSE IF parse_response(response).result # "ok"
        THEN fail("HTTPError", <<call>>)
        ELSE LET nodes == parse_response(response).root
                 b == BatchNodes(nodes, [heap |-> h, cache |-> c, out |-> <<>>])
             IN  [result |-> "ok", heap |-> b.heap, cache |-> b.cache,
                  calls |-> <<call>>, out |-> b.out]

(* ------------------------------------------------------------------ *)
(* Paged listings                                                      *)
(* ------------------------------------------------------------------ *)
\* A query parameter, (key, value).
Param(k, v) == <<k, v>>

\* dict.get(key) is not None, for a params dict kept as a sequence.
HasKey(params, k) == \E i \in 1 .. Len(params) : params[i][1] = k

\* Lims._get_params: the keyword arguments that are not None, with '_'
\* in the key replaced by '-'.
_get_params(name, start_index) ==
    (IF name = None THEN <<>> ELSE <<Param("name", name)>>)
        \o (IF start_index = None THEN <<>>
            ELSE <<Param("start-index", start_index)>>)

\* The URL a request goes to: requests appends params to the query.
PreparedUrl(call) == Url(call.uri.path, call.uri.query \o call.params)

\* klass._TAG or klass.__name__.lower() of the listed entity class.
ListTag == "sample"

Member(u) == [tag |-> ListTag, uri |-> u]
\* root.findall(tag): the children with that tag, in document order.
findall(nodes, tag) == SelectSeq(nodes, LAMBDA n : n.tag = tag)

\* The children a listing page may hold.
PageShapes ==
    LET u1 == get_uri(<<_URI>> \o <<"1">>)
        u2 == get_uri(<<_URI>> \o <<"2">>)
    IN  { <<>>, <<Member(u1)>>, <<Member(u2), Member(u1)>>,
          <<[tag |-> "previous-page", uri |-> None], Member(u2)>> }

RECURSIVE Flatten(_)
Flatten(pages) ==
    IF pages = <<>> THEN <<>> ELSE Head(pages) \o Flatten(Tail(pages))

NoNext == [path |-> None, query |-> <<>>]

\* The page as the server sends it in answer to the request `call`: its
\* children and, unless it is the last page, the next-page element.
\* An echoing server names the requested URL as the next page; the LIMS
\* names the listing with a start-index.
ServerPage(echo, srv, call) ==
    [tag |-> "page",
     nodes |-> srv.nodes,
     next |-> IF ~srv.more THEN NoNext
              ELSE IF echo THEN PreparedUrl(call)
              ELSE Url(call.uri.path, <<Param("start-index", <<"next">>)>>)]

\* The entities klass(self, uri=node.attrib['uri']) of one page:
\* acc = [heap, cache, out].
RECURSIVE PageEntities(_, _)
PageEntities(nodes, acc) ==
    IF nodes = <<>> THEN acc
    ELSE LET n == NewEntity(acc.heap, acc.cache, Head(nodes).uri, None, FALSE,
                            FETCH_STATE_NONE)
         IN  PageEntities(Tail(nodes),
                 [heap |-> n.heap, cache |-> n.cache,
                  out |-> Append(acc.out, n.obj)])

\* A while loop that tests for the next-page element before it collects
\* the page: the members of the last page are left out.
Lims__get_instances_skip_last(l, h, c, srv) ==
    IF HasKey(l.params, "start-index")
    THEN [l |-> l, heap |-> h, cache |-> c, done |-> TRUE, result |-> "ok"]
    ELSE IF l.root.next = NoNext
    THEN [l |-> l, heap |-> h, cache |-> c, done |-> TRUE, result |-> "ok"]
    ELSE LET e == PageEntities(findall(l.root.nodes, ListTag),
                               [heap |-> h, cache |-> c, out |-> l.out])
             call == Call("GET", l.root.next, <<>>)
             g == Lims_get(call.uri, call.params,
                           Response(srv.status, ServerPage(l.echo, srv, call)))
         IN  [l |-> [l EXCEPT !.out = e.out,
                              !.root = g.root,
                              !.pages = IF g.result = "ok"
                                        THEN Append(l.pages, srv.nodes)
                                        ELSE l.pages,
                              !.calls = l.calls \o g.calls,
                              !.ptrs = Append(l.ptrs, l.root.next)],
              heap |-> e.heap, cache |-> e.cache,
              done |-> g.result # "ok", result |-> g.result]

\* One turn of the while loop of Lims._get_instances on the listing l:
\* [l, heap, cache, done, result].  `srv` is the server's answer to the
\* request for the next page.
Lims__get_instances(l, h, c, srv) ==
    IF HasKey(l.params, "start-index")
    THEN [l |-> l, heap |-> h, cache |-> c, done |-> TRUE, result |-> "ok"]
    ELSE LET e == PageEntities(findall(l.root.nodes, ListTag),
                               [heap |-> h, cache |-> c, out |-> l.out])
             l1 == [l EXCEPT !.out = e.out]
             call == Call("GET", l.root.next, <<>>)
             g == Lims_get(call.uri, call.params,
                           Response(srv.status, ServerPage(l.echo, srv, call)))
         IN  IF l.root.next = NoNext
             THEN [l |-> l1, heap |-> e.heap, cache |-> e.cache,
                   done |-> TRUE, result |-> "ok"]
             ELSE [l |-> [l1 EXCEPT !.root = g.root,
                                    !.pages = IF g.result = "ok"
                                              THEN Append(l.pages, srv.nodes)
                                              ELSE l.pages,
                                    !.calls = l.calls \o g.calls,
                                    !.ptrs = Append(l.ptrs, l.root.next)],
                   heap |-> e.heap, cache |-> e.cache,
                   done |-> g.result # "ok", result |-> g.result]

\* One turn of the while loop of Lims.get_sample_number.
Lims_get_sample_number(l, h, c, srv) ==
    IF HasKey(l.params, "start-index")
    THEN [l |-> l, heap |-> h, cache |-> c, done |-> TRUE, result |-> "ok"]
    ELSE LET l1 == [l EXCEPT !.total = l.total + Len(findall(l.root.nodes, ListTag))]
             call == Call("GET", l.root.next, l.params)
             g == Lims_get(call.uri, call.params,
                           Response(srv.status, ServerPage(l.echo, srv, call)))
         IN  IF l.root.next = NoNext
             THEN [l |-> l1, heap |-> h, cache |-> c,
                   done |-> TRUE, result |-> "ok"]
             ELSE [l |-> [l1 EXCEPT !.root = g.root,
                                    !.pages = IF g.result = "ok"
                                              THEN Append(l.pages, srv.nodes)
                                              ELSE l.pages,
                                    !.calls = l.calls \o g.calls,
                                    !.ptrs = Append(l.ptrs, l.root.next)],
                   heap |-> h, cache |-> c,
                   done |-> g.result # "ok", result |-> g.result]

(* ------------------------------------------------------------------ *)
(* User-defined fields: Python values and their text forms             *)
(* ------------------------------------------------------------------ *)
\* Python values, each with its type: "str", "bool", "int", "float" (held
\* in tenths), "date" (as <<year, month, day>>), "NoneType", and "list"
\* for a type the dictionary does not support.
Py(tag, pv) == [tag |-> tag, pv |-> pv]

PyNone == Py("NoneType", 0)

\* bool(x), as in `if not self._udt`.
Truthy(x) ==
    CASE x.tag = "bool" -> x.pv
      [] x.tag = "str" -> x.pv # ""
      [] x.tag = "NoneType" -> FALSE
      [] x.tag \in {"int", "float"} -> x.pv # 0
      [] OTHER -> TRUE

\* isinstance(value, classes); bool is a subclass of int, and str stands
\* for basestring.
isinstance(value, classes) ==
    \/ value.tag \in classes
    \/ value.tag = "bool" /\ "int" \in classes

\* UdfDictionary._is_string
_is_string(value) == isinstance(value, {"str"})

Digits == <<"0", "1", "2", "3", "4", "5", "6", "7", "8", "9">>

\* The decimal text of a natural number, of at least `width` digits.
RECURSIVE Decimal(_, _)
Decimal(n, width) ==
    IF n < 10 /\ width <= 1 THEN Digits[n + 1]
    ELSE Decimal(n \div 10, width - 1) \o Digits[(n % 10) + 1]

\* str(value)
str(value) ==
    CASE value.tag = "str" -> value.pv
      [] value.tag = "int" -> Decimal(value.pv, 1)
      [] value.tag = "float" ->
            Decimal(value.pv \div 10, 1) \o "." \o Decimal(value.pv % 10, 1)
      [] value.tag = "bool" -> IF value.pv THEN "True" ELSE "False"
      [] value.tag = "date" ->
            Decimal(value.pv[1], 4) \o "-" \o Decimal(value.pv[2], 2)
                \o "-" \o Decimal(value.pv[3], 2)
      [] value.tag = "NoneType" -> "None"
      [] OTHER -> "[]"

\* int(text), for the integers 0 .. 9: [result, value].
int(text) ==
    IF \E n \in 0 .. 9 : str(Py("int", n)) = text
    THEN [result |-> "ok",
          value |-> CHOOSE v \in {Py("int", n) : n \in 0 .. 9} : str(v) = text]
    ELSE [result |-> "ValueError", value |-> PyNone]

\* float(text), for the floats 0.0 .. 9.9 and the integers 0 .. 9:
\* [result, value].
float(text) ==
    IF int(text).result = "ok"
    THEN [result |-> "ok", value |-> Py("float", 10 * int(text).value.pv)]
    ELSE IF \E f \in 0 .. 99 : str(Py("float", f)) = text
    THEN [result |-> "ok",
          value |-> CHOOSE v \in {Py("float", f) : f \in 0 .. 99} :
                       str(v) = text]
    ELSE [result |-> "ValueError", value |-> PyNone]

\* datetime.date(*time.strptime(text, "%Y-%m-%d")[:3]), for some days of
\* 2020: [result, value].
strptime(text) ==
    IF \E m \in 1 .. 2, d \in 1 .. 3 : str(Py("date", <<2020, m, d>>)) = text
    THEN [result |-> "ok",
          value |-> CHOOSE v \in {Py("date", <<2020, m, d>>) :
                                   m \in 1 .. 2, d \in 1 .. 3} : str(v) = text]
    ELSE [result |-> "ValueError", value |-> PyNone]

\* text.lower(), on the type tags and on the texts of booleans.
lower(s) ==
    CASE s = "String" -> "string"
      [] s = "Str" -> "str"
      [] s = "Text" -> "text"
      [] s = "Numeric" -> "numeric"
      [] s = "Boolean" -> "boolean"
      [] s = "Date" -> "date"
      [] s = "URI" -> "uri"
      [] s \in {"True", "TRUE"} -> "true"
      [] s \in {"False", "FALSE"} -> "false"
      [] OTHER -> s

(* ------------------------------------------------------------------ *)
(* UdfDictionary                                                       *)
(* ------------------------------------------------------------------ *)
\* A dictionary d holds the udf:field elements of its document --
\* `store` (all elements made so far, an element's identity is its
\* index), `fields` (those that are children of the root node, in
\* order) and `group` (the udf:type element, if present, with its name
\* and its children) -- and the object's own _udt, _elems, _lookup and
\* location.  `hash` is the order in which the build's dict lists keys.
UdfNames == {"a", "b"}

Field(name, type, text) == [name |-> name, type |-> type, text |-> text]

RangeOf(s) == {s[i] : i \in 1 .. Len(s)}

\* list(self._lookup.keys()): the keys in the order of the build's dict.
keys(d) ==
    LET Has(k) == k \in DOMAIN d._lookup
    IN  SelectSeq(d.hash, Has)

\* UdfDictionary._update_elems
_update_elems(d) ==
    IF Truthy(d._udt)
    THEN IF d.group.present
         THEN [d EXCEPT !._udt = Py("str", d.group.name),
                        !._elems = d.group.fields]
         ELSE [d EXCEPT !._elems = <<>>]
    ELSE [d EXCEPT !._elems = d.fields]

\* The body of the loop of _prepare_lookup: the value an element's text
\* stands for, [result, value].
DecodeField(type, text) ==
    IF text = "" THEN [result |-> "ok", value |-> PyNone]
    ELSE IF lower(type) = "numeric"
    THEN IF int(text).result = "ok" THEN int(text) ELSE float(text)
    ELSE IF lower(type) = "boolean"
    THEN [result |-> "ok", value |-> Py("bool", text = "true")]
    ELSE IF lower(type) = "date" THEN strptime(text)
    ELSE [result |-> "ok", value |-> Py("str", text)]

\* The loop of _prepare_lookup over the elements; acc = [result, lookup].
RECURSIVE PrepareLoop(_, _, _)
PrepareLoop(store, elems, acc) ==
    IF elems = <<>> \/ acc.result # "ok" THEN acc
    ELSE PrepareLoop(store, Tail(elems),
             [result |-> DecodeField(store[Head(elems)].type,
                                     store[Head(elems)].text).result,
              lookup |->
                 IF DecodeField(store[Head(elems)].type,
                                store[Head(elems)].text).result = "ok"
                 THEN (store[Head(elems)].name :>
                          DecodeField(store[Head(elems)].type,
                                      store[Head(elems)].text).value)
                      @@ acc.lookup
                 ELSE acc.lookup])

\* UdfDictionary._prepare_lookup: [result, self].
_prepare_lookup(d) ==
    [result |-> PrepareLoop(d.store, d._elems,
                            [result |-> "ok", lookup |-> <<>>]).result,
     self |-> [d EXCEPT !._lookup =
                  PrepareLoop(d.store, d._elems,
                              [result |-> "ok", lookup |-> <<>>]).lookup]]

\* UdfDictionary.__init__ over a document, in the given mode:
\* [result, self].
UdfDictionary__init__(doc, hash, udt) ==
    LET r == _prepare_lookup(_update_elems(
                 [kind |-> "dict", store |-> doc.store,
                  fields |-> doc.fields, group |-> doc.group, hash |-> hash,
                  _udt |-> Py("bool", udt), _elems |-> <<>>, _lookup |-> <<>>,
                  location |-> 0, ops |-> 0, only_sets |-> TRUE]))
    IN  [result |-> r.result, self |-> [r.self EXCEPT !.location = 0]]

\* UdfDictionary.__contains__
UdfDictionary__contains__(d, key) == key \in DOMAIN d._lookup

\* UdfDictionary.__len__
UdfDictionary__len__(d) == Cardinality(DOMAIN d._lookup)

\* UdfDictionary.get
UdfDictionary_get(d, key, default) ==
    IF key \in DOMAIN d._lookup THEN d._lookup[key] ELSE default

\* UdfDictionary.__getitem__: [result, value].
UdfDictionary__getitem__(d, key) ==
    IF key \in DOMAIN d._lookup
    THEN [result |-> "ok", value |-> d._lookup[key]]
    ELSE [result |-> "KeyError", value |-> PyNone]

\* The node of self._elems the loops of __setitem__ and __delitem__ stop
\* at: the first with that name, 0 if there is none.
FindElem(d, key) ==
    IF \E i \in 1 .. Len(d._elems) : d.store[d._elems[i]].name = key
    THEN d._elems[CHOOSE i \in 1 .. Len(d._elems) :
                     /\ d.store[d._elems[i]].name = key
                     /\ \A j \in 1 .. i - 1 : d.store[d._elems[j]].name # key]
    ELSE 0

\* __setitem__ on an existing entry: the check of the value against the
\* lower-cased type tag, and the text to store; [result, text].
ExistingText(vtype, value) ==
    IF value.tag = "NoneType" THEN [result |-> "ok", text |-> str(value)]
    ELSE IF vtype \in {"string", "str", "text"}
    THEN IF _is_string(value) THEN [result |-> "ok", text |-> value.pv]
         ELSE [result |-> "TypeError", text |-> ""]
    ELSE IF vtype = "numeric"
    THEN IF isinstance(value, {"int", "float"})
         THEN [result |-> "ok", text |-> str(value)]
         ELSE [result |-> "TypeError", text |-> ""]
    ELSE IF vtype = "boolean"
    THEN IF isinstance(value, {"bool"})
         THEN [result |-> "ok", text |-> IF value.pv THEN "true" ELSE "false"]
         ELSE [result |-> "TypeError", text |-> ""]
    ELSE IF vtype = "date"
    THEN IF isinstance(value, {"date"})
         THEN [result |-> "ok", text |-> str(value)]
         ELSE [result |-> "TypeError", text |-> ""]
    ELSE IF vtype = "uri"
    THEN IF _is_string(value) THEN [result |-> "ok", text |-> str(value)]
         ELSE [result |-> "TypeError", text |-> ""]
    ELSE [result |-> "TypeError", text |-> ""]

\* __setitem__ on a new entry: the type tag inferred from the value and
\* the text to store; [result, type, text].
InferredField(value) ==
    IF _is_string(value)
    THEN [result |-> "ok",
          type |-> IF value.pv \in {"x\ny", "\n"} THEN "Text" ELSE "String",
          text |-> value.pv]
    ELSE IF isinstance(value, {"bool"})
    THEN [result |-> "ok", type |-> "Boolean",
          text |-> IF value.pv THEN "true" ELSE "false"]
    ELSE IF isinstance(value, {"int", "float"})
    THEN [result |-> "ok", type |-> "Numeric", text |-> str(value)]
    ELSE IF isinstance(value, {"date"})
    THEN [result |-> "ok", type |-> "Date", text |-> str(value)]
    ELSE [result |-> "NotImplementedError", type |-> "", text |-> ""]

\* The branch of __setitem__ for an entry found in self._elems.
SetExisting(d1, node, t) ==
    IF t.result # "ok" THEN [result |-> t.result, self |-> d1]
    ELSE [result |-> "ok", self |-> [d1 EXCEPT !.store[node].text = t.text]]

\* The else branch of __setitem__: a new element under the udf:type
\* element (UDT mode) or the root node, then the rebuild.
SetNew(d1, key, f) ==
    IF f.result # "ok" THEN [result |-> f.result, self |-> d1]
    ELSE IF Truthy(d1._udt) /\ ~d1.group.present
    THEN [result |-> "TypeError", self |-> d1]
    ELSE _prepare_lookup(_update_elems(
             [d1 EXCEPT !.store = Append(@, Field(key, f.type, f.text)),
                        !.fields = IF Truthy(d1._udt) THEN @
                                   ELSE Append(@, Len(d1.store) + 1),
                        !.group.fields = IF Truthy(d1._udt)
                                         THEN Append(@, Len(d1.store) + 1)
                                         ELSE @]))

\* UdfDictionary.__setitem__: [result, self].
UdfDictionary__setitem__(d, key, value) ==
    IF FindElem(d, key) # 0
    THEN SetExisting([d EXCEPT !._lookup = (key :> value) @@ @],
                     FindElem(d, key),
                     ExistingText(lower(d.store[FindElem(d, key)].type),
                                  value))
    ELSE SetNew([d EXCEPT !._lookup = (key :> value) @@ @], key,
                InferredField(value))

\* self.rootnode.remove(node): [result, self].
RootRemove(d, node) ==
    IF node \in RangeOf(d.fields)
    THEN [result |-> "ok",
          self |-> [d EXCEPT !.fields = SelectSeq(@, LAMBDA i : i # node)]]
    ELSE [result |-> "ValueError", self |-> d]

\* UdfDictionary.__delitem__: [result, self].
UdfDictionary__delitem__(d, key) ==
    IF key \notin DOMAIN d._lookup THEN [result |-> "KeyError", self |-> d]
    ELSE IF FindElem(d, key) = 0
    THEN [result |-> "ok",
          self |-> [d EXCEPT !._lookup = [k \in DOMAIN @ \ {key} |-> @[k]]]]
    ELSE RootRemove([d EXCEPT !._lookup = [k \in DOMAIN @ \ {key} |-> @[k]]],
                    FindElem(d, key))

\* The loop of clear over self._elems: [result, self].
RECURSIVE ClearLoop(_, _)
ClearLoop(r, elems) ==
    IF elems = <<>> \/ r.result # "ok" THEN r
    ELSE ClearLoop(RootRemove(r.self, Head(elems)), Tail(elems))

\* UdfDictionary.clear: [result, self].
UdfDictionary_clear(d) ==
    [result |-> ClearLoop([result |-> "ok", self |-> d], d._elems).result,
     self |->
        IF ClearLoop([result |-> "ok", self |-> d], d._elems).result = "ok"
        THEN _update_elems(
                 ClearLoop([result |-> "ok", self |-> d], d._elems).self)
        ELSE ClearLoop([result |-> "ok", self |-> d], d._elems).self]

\* UdfDictionary.__next__: [result, self, out].
UdfDictionary__next__(d) ==
    IF d.location + 1 > Len(keys(d))
    THEN [result |-> "StopIteration", self |-> d, out |-> <<>>]
    ELSE [result |-> "ok", self |-> [d EXCEPT !.location = @ + 1],
          out |-> <<keys(d)[d.location + 1]>>]

\* list(d): __iter__ hands out the dictionary itself, then __next__ is
\* called until it raises StopIteration; [self, out].
RECURSIVE Iteration(_, _)
Iteration(n, out) ==
    IF n.result # "ok" THEN [self |-> n.self, out |-> out]
    ELSE Iteration(UdfDictionary__next__(n.self), out \o n.out)

UdfDictionary__iter__(d) == Iteration(UdfDictionary__next__(d), <<>>)

\* UdfDictionary.get_udt
get_udt(d) == IF d._udt = Py("bool", TRUE) THEN PyNone ELSE d._udt

\* set_udt without the update of the udf:type element.
set_udt_object_only(d, name) ==
    IF ~isinstance(name, {"str"})
    THEN [result |-> "AssertionError", self |-> d]
    ELSE IF ~Truthy(d._udt) THEN [result |-> "AttributeError", self |-> d]
    ELSE [result |-> "ok", self |-> [d EXCEPT !._udt = name]]

\* UdfDictionary.set_udt: [result, self].
set_udt(d, name) ==
    IF ~isinstance(name, {"str"})
    THEN [result |-> "AssertionError", self |-> d]
    ELSE IF ~Truthy(d._udt) THEN [result |-> "AttributeError", self |-> d]
    ELSE IF ~d.group.present
    THEN [result |-> "AssertionError", self |-> [d EXCEPT !._udt = name]]
    ELSE [result |-> "ok",
          self |-> [d EXCEPT !._udt = name, !.group.name = name.pv]]

(* ------------------------------------------------------------------ *)
(* The session: state and operations                                   *)
(* ------------------------------------------------------------------ *)
\* The record of the operation that returned last.
Returned(op, args, obj, pre, result, calls, out) ==
    [op |-> op, args |-> args, obj |-> obj, pre |-> pre, result |-> result,
     calls |-> calls, out |-> out]

NoArgs == [none |-> TRUE]
NoListing == [kind |-> "none"]
NoDictionary == [kind |-> "none"]

\* Lims.__init__: an empty cache; no entity exists yet.
Init ==
    /\ heap = <<>>
    /\ cache = EmptyCache
    /\ last = Returned("init", NoArgs, 0, Blank, "ok", NoCalls, <<>>)
    /\ pc = "idle"
    /\ lst = NoListing
    /\ udf = NoDictionary

Objects == 1 .. Len(heap)

\* klass(lims, uri, id, _create_new, fetch_state)
Construct(uri, id, _create_new, fetch_state) ==
    LET n == NewEntity(heap, cache, uri, id, _create_new, fetch_state)
    IN  /\ pc = "idle"
        /\ Len(n.heap) <= MaxObjects
        /\ heap' = n.heap
        /\ cache' = n.cache
        /\ last' = Returned("construct",
                        [uri |-> uri, id |-> id, _create_new |-> _create_new,
                         fetch_state |-> fetch_state, bag |-> NoAttr],
                        n.obj,
                        IF n.obj \in Objects THEN heap[n.obj] ELSE Blank,
                        n.result, NoCalls, <<>>)
        /\ UNCHANGED <<pc, lst, udf>>

\* klass(lims, uri=uri, bag=bag, _create_new=(uri is None)): a list member
\* with the attributes of its listing node.
ConstructWithBag(uri, bag) ==
    LET n == NewEntityWithBag(heap, cache, uri, bag, uri = None)
    IN  /\ pc = "idle"
        /\ Len(n.heap) <= MaxObjects
        /\ heap' = n.heap
        /\ cache' = n.cache
        /\ last' = Returned("construct",
                        [uri |-> uri, id |-> None, _create_new |-> uri = None,
                         fetch_state |-> FETCH_STATE_NONE, bag |-> bag],
                        n.obj, Blank, n.result, NoCalls, <<>>)
        /\ UNCHANGED <<pc, lst, udf>>

\* instance.get(force, required_fetch_state)
Get(o, force, required, response) ==
    LET g == Entity_get(heap[o], force, required, response)
    IN  /\ pc = "idle"
        /\ heap' = [heap EXCEPT ![o] = g.self]
        /\ last' = Returned("get",
                        [force |-> force, required |-> required,
                         content |-> response.content],
                        o, heap[o], g.result, g.calls, <<>>)
        /\ UNCHANGED <<cache, pc, lst, udf>>

\* Reading the attribute bound by descriptor d on an entity.
ReadBinding(o, d, response) ==
    LET g == Descriptor__get__(d, heap[o], response)
    IN  /\ pc = "idle"
        /\ heap' = [heap EXCEPT ![o] = g.self]
        /\ last' = Returned("read", [d |-> d, ensured |-> g.ensured],
                        o, heap[o], g.result, g.calls, <<g.value>>)
        /\ UNCHANGED <<cache, pc, lst, udf>>

\* Writing the attribute bound by descriptor d on an entity.
WriteBinding(o, d, value, response) ==
    LET g == Descriptor__set__(d, heap[o], value, response)
    IN  /\ pc = "idle"
        /\ heap' = [heap EXCEPT ![o] = g.self]
        /\ last' = Returned("write",
                        [d |-> d, ensured |-> g.ensured, value |-> value],
                        o, heap[o], g.result, g.calls, <<>>)
        /\ UNCHANGED <<cache, pc, lst, udf>>

\* What the server may answer to a batch retrieve of `instances`: one
\* child per link, in the order of the links.
BatchResponses(instances) ==
    {Response(200, [i \in 1 .. Len(instances) |-> Doc(heap[instances[i]].uri, v)]) :
        v \in Values} \cup {NotFound}

BatchArgs ==
    {<<>>} \cup {<<a>> : a \in Objects} \cup {<<a, b>> : a, b \in Objects}

\* lims.get_batch(instances)
GetBatch(instances, response) ==
    LET b == Lims_get_batch(heap, cache, instances, response)
    IN  /\ pc = "idle"
        /\ Len(b.heap) <= MaxObjects
        /\ heap' = b.heap
        /\ cache' = b.cache
        /\ last' = Returned("get_batch",
                        [instances |-> instances, content |-> response.content],
                        0, Blank, b.result, b.calls, b.out)
        /\ UNCHANGED <<pc, lst, udf>>

\* The uri and id arguments of a construction: a URI, an id, or neither.
ConstructArgs ==
    {[uri |-> u, id |-> None] : u \in URIS \cup {None}}
        \cup {[uri |-> None, id |-> i] : i \in IDS}

ListKinds == {"_get_instances", "get_sample_number"}

\* get_samples(name, start_index) / get_sample_number(name, start_index):
\* the parameters are built and the first page is requested.
ListStart(kind, name, start_index, echo, srv) ==
    LET params == _get_params(name, start_index)
        call == Call("GET", Url(get_uri(<<_URI>>), <<>>), params)
        g == Lims_get(call.uri, call.params,
                      Response(srv.status, ServerPage(echo, srv, call)))
        l == [kind |-> kind, params |-> params, echo |-> echo,
              pages |-> IF g.result = "ok" THEN <<srv.nodes>> ELSE <<>>,
              root |-> g.root, calls |-> g.calls,
              ptrs |-> <<>>, out |-> <<>>, total |-> 0]
    IN  /\ pc = "idle"
        /\ IF g.result = "ok"
           THEN /\ pc' = "loop"
                /\ lst' = l
                /\ last' = Returned(kind, NoArgs, 0, Blank, "running", NoCalls, <<>>)
           ELSE /\ pc' = "idle"
                /\ lst' = NoListing
                /\ last' = Returned(kind, l, 0, Blank, g.result, l.calls, <<>>)
        /\ UNCHANGED <<heap, cache, udf>>

\* One turn of the listing's loop; the listing returns when it is done.
ListLoop(srv) ==
    LET r == IF lst.kind = "_get_instances"
             THEN Lims__get_instances(lst, heap, cache, srv)
             ELSE Lims_get_sample_number(lst, heap, cache, srv)
    IN  /\ pc = "loop"
        /\ heap' = r.heap
        /\ cache' = r.cache
        /\ UNCHANGED udf
        /\ IF r.done
           THEN /\ pc' = "idle"
                /\ lst' = NoListing
                /\ last' = Returned(lst.kind, r.l, 0, Blank, r.result, r.l.calls,
                                    IF lst.kind = "_get_instances"
                                    THEN r.l.out ELSE <<r.l.total>>)
           ELSE /\ pc' = "loop"
                /\ lst' = r.l
                /\ UNCHANGED last

\* The answers the server may give to the request for page k when n
\* entities exist: at most MaxPages pages, and no more list members than
\* there is room for objects.
Answers(k, n) ==
    {[status |-> status, nodes |-> nodes, more |-> more] :
        status \in {200, 404},
        nodes \in {x \in PageShapes : n + Len(findall(x, ListTag)) <= MaxObjects},
        more \in {m \in BOOLEAN : m => k < MaxPages}}

NextListing ==
    \/ \E kind \in ListKinds, name \in {None, <<"x">>},
          start_index \in {None, <<"0">>}, echo \in BOOLEAN,
          srv \in Answers(1, Len(heap)) :
          ListStart(kind, name, start_index, echo, srv)
    \/ /\ pc = "loop"
       /\ \E srv \in Answers(Len(lst.pages) + 1,
                             Len(heap) + Len(findall(lst.root.nodes, ListTag))) :
             ListLoop(srv)

SpecListing == Init /\ [][NextListing]_vars

\* The listings of a client that keeps running: a call that has begun
\* goes on with its loop, and the server answers every request.
SpecListingFair == SpecListing /\ WF_vars(NextListing)

Next ==
    \/ \E a \in ConstructArgs, cn \in BOOLEAN, fs \in FetchStates :
          Construct(a.uri, a.id, cn, fs)
    \/ \E uri \in URIS \cup {None}, v \in Values :
          ConstructWithBag(uri, Bag({"name"}, v))
    \/ \E o \in Objects, force \in BOOLEAN, required \in MaskArgs :
          \E response \in Responses(heap[o].uri) :
             Get(o, force, required, response)
    \/ \E o \in Objects, d \in Bindings :
          \E response \in Responses(heap[o].uri) : ReadBinding(o, d, response)
    \/ \E instances \in BatchArgs :
          \E response \in BatchResponses(instances) :
             GetBatch(instances, response)

Spec == Init /\ [][Next]_vars

\* The fetch state machine of single entities: construction, Entity.get
\* and attribute reads, with at most MaxFetched entities.
NextFetch ==
    \/ /\ Len(heap) < MaxFetched
       /\ \E a \in ConstructArgs, cn \in BOOLEAN, fs \in FetchStates :
             Construct(a.uri, a.id, cn, fs)
    \/ \E o \in Objects, force \in BOOLEAN, required \in MaskArgs :
          \E response \in Responses(heap[o].uri) :
             Get(o, force, required, response)
    \/ \E o \in Objects, d \in Bindings :
          \E response \in Responses(heap[o].uri) : ReadBinding(o, d, response)

SpecFetch == Init /\ [][NextFetch]_vars

\* instance.put() / instance.post()
Put(o, response) ==
    LET g == Entity_put(heap[o], response)
    IN  /\ pc = "idle"
        /\ heap' = [heap EXCEPT ![o] = g.self]
        /\ last' = Returned("put",
                        [content |-> response.content, asked |-> g.asked],
                        o, heap[o], g.result, g.calls, <<>>)
        /\ UNCHANGED <<cache, pc, lst, udf>>

Post(o, response) ==
    LET g == Entity_post(heap[o], response)
    IN  /\ pc = "idle"
        /\ heap' = [heap EXCEPT ![o] = g.self]
        /\ last' = Returned("post",
                        [content |-> response.content, asked |-> g.asked],
                        o, heap[o], g.result, g.calls, <<>>)
        /\ UNCHANGED <<cache, pc, lst, udf>>

\* step.advance()
Advance(o, response) ==
    LET g == Step_advance(heap[o], response)
    IN  /\ pc = "idle"
        /\ heap' = [heap EXCEPT ![o] = g.self]
        /\ last' = Returned("advance",
                        [content |-> response.content, asked |-> g.asked],
                        o, heap[o], g.result, g.calls, <<>>)
        /\ UNCHANGED <<cache, pc, lst, udf>>

\* instance.id
ReadId(o) ==
    LET g == Entity_id(heap[o])
    IN  /\ pc = "idle"
        /\ last' = Returned("id", [asked |-> <<>>], o, heap[o], g.result,
                        NoCalls, <<g.value>>)
        /\ UNCHANGED <<heap, cache, pc, lst, udf>>

\* klass.create(lims, **kwargs); when it raises, the caller has no
\* reference to the instance it made.
Create(kw, response) ==
    LET g == Entity_create(heap, cache, kw, response)
    IN  /\ pc = "idle"
        /\ heap' = IF g.result = "ok" THEN g.heap ELSE heap
        /\ cache' = g.cache
        /\ last' = Returned("create",
                        [content |-> response.content, kw |-> kw],
                        IF g.result = "ok" THEN g.obj ELSE 0,
                        Blank, g.result, g.calls, <<>>)
        /\ UNCHANGED <<pc, lst, udf>>

\* klass._create(lims, **kwargs): the detached instance, not yet posted.
\* (No response is needed: reading or setting an attribute of an instance
\* without URI never gets one.)
CreateDetached(kw) ==
    LET g == Entity__create(heap, cache, kw, NotFound)
    IN  /\ pc = "idle"
        /\ heap' = IF g.result = "ok" THEN g.heap ELSE heap
        /\ cache' = g.cache
        /\ last' = Returned("_create", [kw |-> kw],
                        IF g.result = "ok" THEN g.obj ELSE 0,
                        Blank, g.result, NoCalls, <<>>)
        /\ UNCHANGED <<pc, lst, udf>>

\* Reading a nested entity list (workflow.stages) on an entity.
ReadNested(o, response) ==
    LET g == NestedEntityListDescriptor__get__(heap, cache, o, response)
    IN  /\ pc = "idle"
        /\ Len(g.heap) <= MaxObjects
        /\ heap' = g.heap
        /\ cache' = g.cache
        /\ last' = Returned("read_nested",
                        [content |-> response.content, ensured |-> g.ensured],
                        o, heap[o], g.result, g.calls, g.out)
        /\ UNCHANGED <<pc, lst, udf>>

\* Reading a nested list of entities expanded in the parent's document.
ReadNestedExpanded(o, response) ==
    LET g == NestedExpandedEntityListDescriptor__get__(heap, cache, o,
                                                       response)
    IN  /\ pc = "idle"
        /\ Len(g.heap) <= MaxObjects
        /\ heap' = g.heap
        /\ cache' = g.cache
        /\ last' = Returned("read_expanded",
                        [content |-> response.content, ensured |-> g.ensured],
                        o, heap[o], g.result, g.calls, g.out)
        /\ UNCHANGED <<pc, lst, udf>>

\* The keywords of a create: none, or a value for one bound attribute.
CreateArgs ==
    {<<>>} \cup {<<[d |-> d, value |-> v]>> : d \in Bindings, v \in Values}

\* What the server may answer to the read of a nested list of `uri`.
NestedResponses(uri) ==
    {Response(200, ListingDocs(uri, <<[uri |-> m, name |-> v]>>)) :
        m \in URIS \cup {None}, v \in Values}
        \cup {Response(200, ListingDocs(uri, <<[uri |-> m1, name |-> "a"],
                                               [uri |-> m2, name |-> "b"]>>)) :
                 m1 \in URIS, m2 \in URIS}
        \cup {NotFound}

\* Local changes and saves of single entities: construction and create,
\* a fetch, attribute reads and writes, put, post, advance and id, with at
\* most MaxSaved entities.
NextSave ==
    \/ /\ Len(heap) < MaxSaved
       /\ \E a \in ConstructArgs, cn \in BOOLEAN :
             Construct(a.uri, a.id, cn, FETCH_STATE_NONE)
    \/ /\ Len(heap) < MaxSaved
       /\ \E kw \in CreateArgs, u \in URIS :
             \E response \in Responses(u) : Create(kw, response)
    \/ /\ Len(heap) < MaxSaved
       /\ \E kw \in CreateArgs : CreateDetached(kw)
    \/ \E o \in Objects : \E response \in Responses(heap[o].uri) :
          Get(o, FALSE, Mask(FETCH_STATE_DETAILS), response)
    \/ \E o \in Objects, d \in Bindings :
          \E response \in Responses(heap[o].uri) : ReadBinding(o, d, response)
    \/ \E o \in Objects, d \in Bindings, v \in Values :
          \E response \in Responses(heap[o].uri) :
             WriteBinding(o, d, v, response)
    \/ \E o \in Objects : \E response \in Responses(heap[o].uri) :
          Put(o, response)
    \/ \E o \in Objects : \E response \in Responses(heap[o].uri) :
          Post(o, response)
    \/ \E o \in Objects : \E response \in Responses(heap[o].uri) :
          Advance(o, response)
    \/ \E o \in Objects : ReadId(o)
    \/ \E o \in Objects : \E response \in NestedResponses(heap[o].uri) :
          ReadNested(o, response)
    \/ \E o \in Objects : \E response \in NestedResponses(heap[o].uri) :
          ReadNestedExpanded(o, response)

SpecSave == Init /\ [][NextSave]_vars

(* ------------------------------------------------------------------ *)
(* A user-defined field dictionary in use                              *)
(* ------------------------------------------------------------------ *)
\* The lists of field elements of the documents, in document order:
\* none, one field "a" of each type with some texts, and "b" before "a".
FieldLists ==
    {<<>>, <<Field("b", "String", "x"), Field("a", "Numeric", "1")>>}
        \cup {<<Field("a", k[1], k[2])>> :
                 k \in {<<"String", "x">>, <<"String", "">>,
                        <<"Text", "x\ny">>, <<"Numeric", "1">>,
                        <<"Numeric", "1.5">>, <<"Boolean", "true">>,
                        <<"Boolean", "True">>, <<"Boolean", "TRUE">>,
                        <<"Boolean", "false">>, <<"Date", "2020-01-02">>,
                        <<"URI", "x">>}}

\* A document with the fields fs under its root node or, grouped, under
\* a udf:type element named "t".
UdfDoc(fs, grouped) ==
    [store |-> fs,
     fields |-> IF grouped THEN <<>> ELSE [i \in 1 .. Len(fs) |-> i],
     group |-> [present |-> grouped, name |-> IF grouped THEN "t" ELSE "",
                fields |-> IF grouped THEN [i \in 1 .. Len(fs) |-> i]
                           ELSE <<>>]]

\* The dictionaries under study: a plain one over each list of fields,
\* a UDT over some lists of grouped fields, a UDT over a document with
\* no udf:type element, and a plain one beside a udf:type element.
UdfCases ==
    {[doc |-> UdfDoc(fs, FALSE), udt |-> FALSE] : fs \in FieldLists}
        \cup {[doc |-> UdfDoc(fs, TRUE), udt |-> TRUE] :
                 fs \in {fs \in FieldLists : Len(fs) # 1
                                              \/ fs[1].type = "String"}}
        \cup {[doc |-> UdfDoc(<<>>, FALSE), udt |-> TRUE],
              [doc |-> UdfDoc(<<Field("a", "String", "x")>>, TRUE),
               udt |-> FALSE]}

\* UdfDictionary(instance, udt=udt) on an entity with the document doc.
NewDictionary(doc, hash, udt) ==
    LET r == UdfDictionary__init__(doc, hash, udt)
    IN  /\ pc = "idle"
        /\ udf = NoDictionary
        /\ udf' = IF r.result = "ok" THEN r.self ELSE NoDictionary
        /\ last' = Returned("UdfDictionary", [doc |-> doc, udt |-> udt], 0,
                            Blank, r.result, NoCalls, <<>>)
        /\ UNCHANGED <<heap, cache, pc, lst>>

\* The state a mutating call leaves: the dictionary, one more call made,
\* and whether all calls so far were successful sets.
After(r, is_set) ==
    [r.self EXCEPT !.ops = @ + 1,
                   !.only_sets = @ /\ is_set /\ r.result = "ok"]

\* d[key] = value
SetItem(key, value) ==
    LET r == UdfDictionary__setitem__(udf, key, value)
    IN  /\ udf # NoDictionary
        /\ udf.ops < MaxOps
        /\ Len(r.self.store) <= MaxFields
        /\ udf' = After(r, TRUE)
        /\ last' = Returned("__setitem__",
                            [key |-> key, value |-> value, pre |-> udf], 0,
                            Blank, r.result, NoCalls, <<>>)
        /\ UNCHANGED <<heap, cache, pc, lst>>

\* del d[key]
DelItem(key) ==
    LET r == UdfDictionary__delitem__(udf, key)
    IN  /\ udf # NoDictionary
        /\ udf.ops < MaxOps
        /\ udf' = After(r, FALSE)
        /\ last' = Returned("__delitem__", [key |-> key, pre |-> udf], 0,
                            Blank, r.result, NoCalls, <<>>)
        /\ UNCHANGED <<heap, cache, pc, lst>>

\* d.clear()
Clear ==
    LET r == UdfDictionary_clear(udf)
    IN  /\ udf # NoDictionary
        /\ udf.ops < MaxOps
        /\ udf' = After(r, FALSE)
        /\ last' = Returned("clear", [pre |-> udf], 0, Blank, r.result,
                            NoCalls, <<>>)
        /\ UNCHANGED <<heap, cache, pc, lst>>

\* list(d)
Iterate ==
    LET r == UdfDictionary__iter__(udf)
    IN  /\ udf # NoDictionary
        /\ udf' = r.self
        /\ last' = Returned("__iter__", [pre |-> udf], 0, Blank, "ok",
                            NoCalls, r.out)
        /\ UNCHANGED <<heap, cache, pc, lst>>

\* d.udt = name
SetUdt(name) ==
    LET r == set_udt(udf, name)
    IN  /\ udf # NoDictionary
        /\ udf.ops < MaxOps
        /\ udf' = After(r, FALSE)
        /\ last' = Returned("set_udt", [name |-> name, pre |-> udf], 0,
                            Blank, r.result, NoCalls, <<>>)
        /\ UNCHANGED <<heap, cache, pc, lst>>

\* One dictionary over one document, and at most MaxOps changing calls
\* on it.
NextUdf ==
    \/ \E c \in UdfCases, hash \in {<<"a", "b">>, <<"b", "a">>} :
          NewDictionary(c.doc, hash, c.udt)
    \/ \E key \in UdfNames,
          value \in {Py("str", "x"), Py("str", ""), Py("str", "x\ny"),
                     Py("bool", TRUE), Py("bool", FALSE), Py("int", 1),
                     Py("float", 15), Py("date", <<2020, 1, 2>>), PyNone,
                     Py("list", 0)} : SetItem(key, value)
    \/ \E key \in UdfNames : DelItem(key)
    \/ Clear
    \/ Iterate
    \/ \E name \in {Py("str", "n"), PyNone} : SetUdt(name)

SpecUdf == Init /\ [][NextUdf]_vars

(* ------------------------------------------------------------------ *)
(* The Document Store calls on their own                               *)
(* ------------------------------------------------------------------ *)
\* What a server may answer to a request on `uri`: the document with
\* status 200; with another status the document, no body, a body that
\* is not XML, or an error document with a message and, or not, the
\* suggested actions.
StoreResponses(uri) ==
    {Response(200, Doc(uri, v)) : v \in Values}
        \cup {Response(st, b) :
                 st \in {201, 400, 404, 500},
                 b \in {NoRoot, [tag |-> "text", text |-> "x"]}
                          \cup {Doc(uri, v) : v \in Values}
                          \cup {[tag |-> "exception", message |-> m,
                                  suggested |-> sa] :
                                   m \in Values, sa \in {<<>>, <<"s">>}}}

\* lims.get(uri), lims.put(uri, data) or lims.post(uri, data).
StoreCall(method, uri, response) ==
    LET r == CASE method = "GET" -> Lims_get(Url(uri, <<>>), <<>>, response)
               [] method = "PUT" ->
                     Lims_put(Url(uri, <<>>), Doc(uri, "a"), response)
               [] OTHER -> Lims_post(Url(uri, <<>>), Doc(uri, "a"), response)
    IN  /\ pc = "idle"
        /\ last' = Returned(method,
                        [response |-> response, root |-> r.root,
                         message |-> r.message],
                        0, Blank, r.result, r.calls, <<>>)
        /\ UNCHANGED <<heap, cache, pc, lst, udf>>

NextStore ==
    \E method \in {"GET", "PUT", "POST"}, uri \in URIS \cup {None} :
        \E response \in StoreResponses(uri) : StoreCall(method, uri, response)

SpecStore == Init /\ [][NextStore]_vars

(* ------------------------------------------------------------------ *)
(* Decoding of the typed bindings                                      *)
(* ------------------------------------------------------------------ *)
\* Declarations of the descriptor classes that decode the text of an
\* element, the elements of a tag or an XML attribute of the root, on a
\* tag the documents hold ("name", the attribute "uri") and on one they
\* do not.
DecodingBindings ==
    {[kind |-> k, tag |-> t, declared |-> FETCH_STATE_DETAILS] :
        k \in {"StringDescriptor", "IntegerDescriptor", "BooleanDescriptor",
               "EntityDescriptor", "StringListDescriptor",
               "StringAttributeDescriptor"},
        t \in {"name", "uri", "date-received"}}

\* get_from_loaded of these classes after instance.get() has returned,
\* on the loaded root: [result, value].
Decode(d, root) ==
    CASE d.kind = "StringAttributeDescriptor" ->
            IF d.tag = "uri"
            THEN [result |-> "ok", value |-> Py("uri", root.uri)]
            ELSE [result |-> "KeyError", value |-> PyNone]
      [] d.kind = "StringListDescriptor" ->
            [result |-> "ok",
             value |-> Py("list", IF NodeText(root, d.tag) = "None" THEN <<>>
                                  ELSE <<NodeText(root, d.tag)>>)]
      [] NodeText(root, d.tag) = "None" -> [result |-> "ok", value |-> PyNone]
      [] d.kind = "IntegerDescriptor" -> int(NodeText(root, d.tag))
      [] d.kind = "BooleanDescriptor" ->
            [result |-> "ok",
             value |-> Py("bool", lower(NodeText(root, d.tag)) = "true")]
      [] d.kind = "EntityDescriptor" ->
            [result |-> "KeyError", value |-> PyNone]
      [] OTHER -> [result |-> "ok", value |-> Py("str", NodeText(root, d.tag))]

\* BaseDescriptor.__get__ of these classes: the bag when it answers, else
\* instance.get() and the decoding of the root: [result, value, self, calls].
Decoding__get__(d, self, response) ==
    LET a == is_available_in_bag(d, self)
        g == Entity_get(self, FALSE, EnsureMask(d), response)
    IN  IF a = "AttributeError"
        THEN [result |-> "AttributeError", value |-> PyNone,
              self |-> self, calls |-> NoCalls]
        ELSE IF a = "True"
        THEN [result |-> get_from_bag(d, self).result,
              value |-> Py("str", get_from_bag(d, self).value),
              self |-> self, calls |-> NoCalls]
        ELSE IF g.result # "ok"
        THEN [result |-> g.result, value |-> PyNone,
              self |-> g.self, calls |-> g.calls]
        ELSE [result |-> Decode(d, g.self.root).result,
              value |-> Decode(d, g.self.root).value,
              self |-> g.self, calls |-> g.calls]

\* Reading the attribute bound by a typed descriptor on an entity.
ReadDecoding(o, d, response) ==
    LET g == Decoding__get__(d, heap[o], response)
    IN  /\ pc = "idle"
        /\ heap' = [heap EXCEPT ![o] = g.self]
        /\ last' = Returned("decode", [d |-> d], o, heap[o], g.result,
                        g.calls, <<g.value>>)
        /\ UNCHANGED <<cache, pc, lst, udf>>

\* Entities built with or without a bag, fetched, and read through the
\* typed bindings.
NextDecode ==
    \/ /\ Len(heap) < MaxFetched
       /\ \E a \in ConstructArgs, fs \in FetchStates :
             Construct(a.uri, a.id, FALSE, fs)
    \/ /\ Len(heap) < MaxFetched
       /\ \E uri \in URIS, v \in Values :
             ConstructWithBag(uri, Bag({"name"}, v))
    \/ \E o \in Objects, required \in MaskArgs :
          \E response \in Responses(heap[o].uri) :
             Get(o, FALSE, required, response)
    \/ \E o \in Objects, d \in DecodingBindings :
          \E response \in Responses(heap[o].uri) : ReadDecoding(o, d, response)

SpecDecode == Init /\ [][NextDecode]_vars

(* ------------------------------------------------------------------ *)
(* Properties                                                          *)
(* ------------------------------------------------------------------ *)
Satisfies(fetch_state, mask) == BitAnd(fetch_state, mask) # 0

\* The URIs of the entities of a list of objects, in order.
UrisOf(objs) == [i \in 1 .. Len(objs) |-> heap[objs[i]].uri]

\* The uri attributes of the list members among `nodes`, in order.
MemberUris(nodes) ==
    [i \in 1 .. Len(findall(nodes, ListTag)) |-> findall(nodes, ListTag)[i].uri]

\* C1 (identity): within a session, at most one entity instance exists per
\* URI: two entities constructed for the same URI (not with _create_new)
\* are the same object.
C1_Identity ==
    \A a, b \in Objects :
        (/\ ~heap[a].created_new
         /\ ~heap[b].created_new
         /\ heap[a].uri = heap[b].uri) => a = b

\* C2 (at most one fetch): an attribute read on an entity whose fetch
\* state satisfies the binding's declared state makes no Document Store
\* call; a read whose declared state is not yet satisfied makes exactly one.
C2_AtMostOneFetch ==
    (last.op = "read" /\ last.pre.uri # None) =>
        IF Satisfies(last.pre.fetch_state, last.args.d.declared)
        THEN last.calls = NoCalls
        ELSE Len(last.calls) = 1

\* C3 (fetch-state monotonicity): no operation clears a bit of an entity's
\* fetch_state: the bits held before the operation are held after it.
C3_FetchStateMonotonic ==
    (last.op \in {"get", "read"}) =>
        BitAnd(last.pre.fetch_state, heap[last.obj].fetch_state)
            = last.pre.fetch_state

\* C4 (bag precedence): an entity can be constructed with a bag; while it
\* has no loaded document a read of a field of the bag returns the bag's
\* value without a fetch, and once a document is loaded the read returns
\* the document's value.
C4_BagPrecedence ==
    /\ (last.op = "construct" /\ last.args.bag # NoAttr) =>
          /\ last.result = "ok"
          /\ last.obj \in Objects
          /\ heap[last.obj].bag = last.args.bag
    /\ (/\ last.op = "read"
        /\ last.pre.bag # NoAttr
        /\ last.args.d.tag \in last.pre.bag.keys) =>
          /\ last.result = "ok"
          /\ IF last.pre.root = NoRoot
             THEN last.out = <<last.pre.bag.value>> /\ last.calls = NoCalls
             ELSE last.out = <<NodeText(last.pre.root, last.args.d.tag)>>

\* C5 (pagination parameter stability): in a listing, every request after
\* the first goes to exactly the URI of the previous page's next-page
\* pointer with no parameters added; with a server that echoes the
\* requested URL as the pointer, all requested URLs are the same.
C5_ParametersNotRepeated ==
    (last.op \in ListKinds /\ last.result # "running") =>
        \A i \in 2 .. Len(last.calls) :
            /\ last.calls[i].params = <<>>
            /\ last.calls[i].uri = last.args.ptrs[i - 1]
            /\ last.args.echo =>
                  PreparedUrl(last.calls[i]) = PreparedUrl(last.calls[1])

\* C6 (pagination completeness): a listing without start_index that
\* returns has followed the next-page pointer until a page had none, with
\* one request per page, and its result holds one entity per list member
\* of every page, in page order and document order.
C6_ListingComplete ==
    (/\ last.op = "_get_instances"
     /\ last.result = "ok"
     /\ ~HasKey(last.args.params, "start-index")) =>
        /\ last.args.root.next = NoNext
        /\ Len(last.calls) = Len(last.args.pages)
        /\ UrisOf(last.out) = MemberUris(Flatten(last.args.pages))

\* A listing of two pages or more that returned two entities or more.
C6_Witness ==
    /\ last.op = "_get_instances"
    /\ last.result = "ok"
    /\ ~HasKey(last.args.params, "start-index")
    /\ Len(last.args.pages) >= 2
    /\ Len(last.args.pages[2]) >= 1
    /\ Len(last.out) >= 2

\* C7 (explicit start_index): a listing called with start_index fetches
\* that one page and returns the entities listed on it.
C7_StartIndexPage ==
    (/\ last.op = "_get_instances"
     /\ last.result = "ok"
     /\ HasKey(last.args.params, "start-index")) =>
        /\ Len(last.calls) = 1
        /\ UrisOf(last.out) = MemberUris(last.args.pages[1])

\* C8 (listing state): every entity a listing returns has fetch_state
\* OVERVIEW when the listing returns.
C8_ListedOverview ==
    (last.op = "_get_instances" /\ last.result = "ok") =>
        \A i \in 1 .. Len(last.out) :
            heap[last.out[i]].fetch_state = FETCH_STATE_OVERVIEW

\* C9 (batch hydration): after get_batch returns, every entity passed in
\* has its fragment of the response as its document and fetch_state
\* DETAILS.
C9_BatchHydrates ==
    (last.op = "get_batch" /\ last.result = "ok") =>
        \A i \in 1 .. Len(last.args.instances) :
            /\ heap[last.args.instances[i]].root = last.args.content[i]
            /\ heap[last.args.instances[i]].fetch_state = FETCH_STATE_DETAILS

\* C10 (ensure): Entity.get with a valid mask on an entity that has a URI:
\* when the fetch state does not satisfy the mask, or force is set, it
\* makes exactly one GET of the entity's URI and, the GET answered, the
\* entity holds the returned document and fetch_state DETAILS; otherwise
\* it makes no call and leaves the entity as it was.
C10_Ensure ==
    (/\ last.op = "get"
     /\ ValidMask(last.args.required)
     /\ last.pre.uri # None) =>
        IF last.args.force
              \/ ~Satisfies(last.pre.fetch_state, last.args.required.v)
        THEN /\ last.calls = <<Call("GET", Url(last.pre.uri, <<>>), <<>>)>>
             /\ last.result = "ok" =>
                   /\ heap[last.obj].root = last.args.content
                   /\ heap[last.obj].fetch_state = FETCH_STATE_DETAILS
        ELSE /\ last.result = "ok"
             /\ last.calls = NoCalls
             /\ heap[last.obj] = last.pre

\* A forced get on an entity that held a document replaced the document.
C10_Witness ==
    /\ last.op = "get"
    /\ last.result = "ok"
    /\ last.args.force
    /\ Satisfies(last.pre.fetch_state, last.args.required.v)
    /\ last.pre.root # NoRoot
    /\ heap[last.obj].root # last.pre.root
    /\ heap[last.obj].fetch_state = FETCH_STATE_DETAILS

\* C11 (declared mask): every binding read and write that asks the entity
\* to ensure its state passes the fetch state declared for the binding,
\* never an empty or missing mask.
C11_DeclaredMask ==
    (last.op \in {"read", "write"}) =>
        \A i \in 1 .. Len(last.args.ensured) :
            last.args.ensured[i] = Mask(last.args.d.declared)

\* C12 (invalid mask): Entity.get with no mask, the empty mask or a mask
\* outside the subsets of {OVERVIEW, DETAILS} raises before any Document
\* Store call and leaves the entity unchanged.
C12_InvalidMaskRejected ==
    (last.op = "get" /\ ~ValidMask(last.args.required)) =>
        /\ last.result = "AssertionError"
        /\ last.calls = NoCalls
        /\ heap[last.obj] = last.pre

\* A forced get with the empty mask on an entity that has a URI and no
\* document was rejected.
C12_Witness ==
    /\ last.op = "get"
    /\ last.args.required = Mask(FETCH_STATE_NONE)
    /\ last.args.force
    /\ last.pre.uri # None
    /\ last.pre.fetch_state = FETCH_STATE_NONE
    /\ last.result = "AssertionError"

\* C13 (save): after a put, post or create that the server answered, the
\* entity's document is the document the server returned and its URI the
\* URI in it, and what a put or post submitted is the serialized document
\* the entity held.
C13_SaveReplaces ==
    (last.op \in {"put", "post", "create"} /\ last.result = "ok") =>
        /\ heap[last.obj].root = last.args.content
        /\ heap[last.obj].uri = last.args.content.uri
        /\ Len(last.calls) = 1
        /\ last.op \in {"put", "post"} => last.calls[1].data = last.pre.root

C15_ResolutionById ==
    (/\ last.op = "construct"
     /\ last.result = "ok"
     /\ last.args.bag = NoAttr
     /\ ~last.args._create_new
     /\ last.args.uri = None
     /\ last.args.id # None) =>
        /\ heap[last.obj].uri = get_uri(<<_URI>> \o last.args.id)
        /\ \A b \in Objects :
              (~heap[b].created_new /\ heap[b].uri = heap[last.obj].uri)
                  => b = last.obj

C17_NeitherRaises ==
    [][(/\ last'.op = "construct"
        /\ last'.args.bag = NoAttr
        /\ last'.args.uri = None
        /\ last'.args.id = None
        /\ ~last'.args._create_new) =>
           /\ last'.result = "ValueError"
           /\ last'.obj = 0
           /\ heap' = heap
           /\ cache' = cache]_vars

\* Such a construction, asking for fetch state DETAILS, has raised.
C17_Witness ==
    /\ last.op = "construct"
    /\ last.args.uri = None
    /\ last.args.id = None
    /\ ~last.args._create_new
    /\ last.args.fetch_state = FETCH_STATE_DETAILS
    /\ last.result = "ValueError"

\* C18 (detached creation): a construction with the create flag and no URI
\* adds one instance that has no URI, changes no other instance and
\* leaves the registry unchanged.
C18_DetachedCreation ==
    [][(/\ last'.op = "construct"
        /\ last'.args.bag = NoAttr
        /\ last'.args.uri = None
        /\ last'.args._create_new) =>
           /\ last'.result = "ok"
           /\ last'.obj = Len(heap) + 1
           /\ heap' = Append(heap, heap'[last'.obj])
           /\ heap'[last'.obj].uri = None
           /\ cache' = cache]_vars

\* A detached instance was made by a construction that named an id.
C18_Witness ==
    /\ last.op = "construct"
    /\ last.result = "ok"
    /\ last.args._create_new
    /\ last.args.uri = None
    /\ last.args.id # None
    /\ heap[last.obj].uri = None
    /\ heap[last.obj].created_new

\* C19 (detached entities): on an entity made with the create flag and
\* without URI, put, post, advance, get and reading id raise, send
\* nothing, and hand no URI built from the missing value to the Document
\* Store.
C19_DetachedRaises ==
    (/\ last.op \in {"put", "post", "advance", "get", "id"}
     /\ last.pre.created_new
     /\ last.pre.uri = None) =>
        /\ last.result # "ok"
        /\ last.calls = NoCalls
        /\ last.op # "get" => last.args.asked = <<>>

\* C20 (list-member bag): reading a nested entity list on an entity whose
\* document the server can deliver returns one entity per list node, each
\* with the URI of its node and a bag holding the configured fields of
\* that node.
C20_MemberBag ==
    (/\ last.op = "read_nested"
     /\ last.pre.uri # None
     /\ last.args.content # NoRoot) =>
        /\ last.result = "ok"
        /\ Len(last.out) = Len(NestedNodes(last.args.content))
        /\ \A i \in 1 .. Len(last.out) :
              /\ heap[last.out[i]].uri = NestedNodes(last.args.content)[i].uri
              /\ heap[last.out[i]].bag =
                    Bag(bag_keys, NestedNodes(last.args.content)[i].name)


\* C21 (nested list order): reading a nested entity list, plain or
\* expanded, on an entity whose document lists the members X1, X2 in that
\* order returns exactly one entity per member, in the same order.
C21_NestedOrder ==
    (/\ last.op \in {"read_nested", "read_expanded"}
     /\ last.pre.uri # None
     /\ last.args.content # NoRoot
     /\ Len(NestedNodes(last.args.content)) = 2) =>
        /\ last.result = "ok"
        /\ UrisOf(last.out) =
              [i \in 1 .. 2 |-> NestedNodes(last.args.content)[i].uri]

\* The value's type agrees with a type tag: Numeric with int or float
\* but not bool, Boolean with bool, Date with a date, the others with text.
Agrees(type, value) ==
    CASE lower(type) = "numeric" -> value.tag \in {"int", "float"}
      [] lower(type) = "boolean" -> value.tag = "bool"
      [] lower(type) = "date" -> value.tag = "date"
      [] OTHER -> value.tag = "str"

\* The elements that back a dictionary in its document, in document
\* order: the udf:field children of the udf:type element in UDT mode, of
\* the root node otherwise.
DocFields(d) == IF Truthy(d._udt) THEN d.group.fields ELSE d.fields

\* The backing elements with a given name.
NamedFields(d, key) ==
    SelectSeq(DocFields(d), LAMBDA i : d.store[i].name = key)

\* A dictionary built anew over the document of d, in d's mode.
Rebuilt(d) ==
    UdfDictionary__init__(
        [store |-> d.store, fields |-> d.fields, group |-> d.group],
        d.hash, Truthy(d._udt))

\* The document and the object's own attributes are those of before.
SameDictionary(d, pre) ==
    /\ d.store = pre.store
    /\ d.fields = pre.fields
    /\ d.group = pre.group
    /\ d._udt = pre._udt
    /\ d._elems = pre._elems
    /\ d._lookup = pre._lookup
    /\ d.location = pre.location

\* The name has an entry backed by an element of the document.
HasEntry(d, key) ==
    /\ key \in DOMAIN d._lookup
    /\ FindElem(d, key) # 0
    /\ FindElem(d, key) \in RangeOf(DocFields(d))

\* The name has no entry and no element of the document.
HasNoEntry(d, key) ==
    /\ key \notin DOMAIN d._lookup
    /\ NamedFields(d, key) = <<>>

\* C22 (UDF round trip): after set(name, value) with a value, other
\* than the empty text, of the type of the entry's tag, or of a supported
\* type when the name has no entry yet, get(name) returns a value equal
\* to value, both on the same dictionary and on one rebuilt from the same
\* document.
C22_RoundTrip ==
    (/\ last.op = "__setitem__"
     /\ last.args.value # Py("str", "")
     /\ \/ /\ HasEntry(last.args.pre, last.args.key)
           /\ Agrees(last.args.pre.store[FindElem(last.args.pre,
                                                  last.args.key)].type,
                     last.args.value)
        \/ /\ HasNoEntry(last.args.pre, last.args.key)
           /\ last.args.value.tag \in {"str", "int", "float", "bool", "date"}
           /\ Truthy(last.args.pre._udt) => last.args.pre.group.present) =>
        /\ last.result = "ok"
        /\ UdfDictionary__getitem__(udf, last.args.key) =
              [result |-> "ok", value |-> last.args.value]
        /\ Rebuilt(udf).result = "ok"
        /\ UdfDictionary__getitem__(Rebuilt(udf).self, last.args.key) =
              [result |-> "ok", value |-> last.args.value]

\* C23 (UDF type enforcement): a set on an existing entry with a value,
\* other than None, whose type disagrees with the entry's type tag
\* raises a type error.
C23_TypeEnforced ==
    (/\ last.op = "__setitem__"
     /\ HasEntry(last.args.pre, last.args.key)
     /\ last.args.value.tag # "NoneType"
     /\ ~Agrees(last.args.pre.store[FindElem(last.args.pre,
                                             last.args.key)].type,
                last.args.value)) =>
        last.result = "TypeError"

\* C24 (type-tag agreement): on a dictionary that has seen successful
\* sets only, every entry that holds a value holds one of the type of
\* its tag.
C24_TagAgreement ==
    (udf # NoDictionary /\ udf.only_sets) =>
        \A key \in DOMAIN udf._lookup :
            (HasEntry(udf, key) /\ udf._lookup[key].tag # "NoneType") =>
                Agrees(udf.store[FindElem(udf, key)].type, udf._lookup[key])

\* C25 (UDF type inference): a set on a name with no entry creates
\* exactly one element with that name, tagged Text for text with a line
\* break, String for other text, Boolean for a bool, Numeric for an int
\* or float and Date for a date; a value of another type raises
\* NotImplementedError and leaves the document as it was.
C25_TypeInference ==
    (/\ last.op = "__setitem__"
     /\ HasNoEntry(last.args.pre, last.args.key)
     /\ Truthy(last.args.pre._udt) => last.args.pre.group.present) =>
        IF last.args.value.tag \in {"str", "int", "float", "bool", "date"}
        THEN /\ last.result = "ok"
             /\ Len(NamedFields(udf, last.args.key)) = 1
             /\ udf.store[NamedFields(udf, last.args.key)[1]].type =
                   CASE last.args.value.tag = "str" ->
                            IF last.args.value.pv = "x\ny" THEN "Text"
                            ELSE "String"
                     [] last.args.value.tag = "bool" -> "Boolean"
                     [] last.args.value.tag = "date" -> "Date"
                     [] OTHER -> "Numeric"
        ELSE /\ last.result = "NotImplementedError"
             /\ udf.store = last.args.pre.store
             /\ udf.fields = last.args.pre.fields
             /\ udf.group = last.args.pre.group

\* C26 (UDF delete): delete(name) of an existing entry, plain or UDT,
\* removes the element from the document and the entry from the index;
\* delete of a missing name raises KeyError and changes nothing.
C26_Delete ==
    last.op = "__delitem__" =>
        IF HasEntry(last.args.pre, last.args.key)
        THEN /\ last.result = "ok"
             /\ ~UdfDictionary__contains__(udf, last.args.key)
             /\ NamedFields(udf, last.args.key) = <<>>
        ELSE (last.args.key \notin DOMAIN last.args.pre._lookup) =>
                /\ last.result = "KeyError"
                /\ SameDictionary(udf, last.args.pre)

\* C27 (UDF clear): after clear(), plain or UDT, the document holds no
\* backing element and the dictionary is empty: len() is 0, no name is
\* contained and get(name) returns the default.
C27_Clear ==
    last.op = "clear" =>
        /\ last.result = "ok"
        /\ DocFields(udf) = <<>>
        /\ UdfDictionary__len__(udf) = 0
        /\ \A key \in UdfNames :
              /\ ~UdfDictionary__contains__(udf, key)
              /\ UdfDictionary_get(udf, key, PyNone) = PyNone

\* C28 (UDF iteration order): iterating a dictionary yields the names of
\* its backing elements, each once, in document order.
C28_IterationOrder ==
    last.op = "__iter__" =>
        last.out = [i \in 1 .. Len(DocFields(udf)) |->
                       udf.store[DocFields(udf)[i]].name]

\* C29 (Boolean decoding): a dictionary built over a document holds, for
\* each Boolean field with a text, true if the text is "true" in any
\* letter case and false otherwise.
C29_BooleanDecoding ==
    (last.op = "UdfDictionary" /\ last.result = "ok") =>
        \A i \in RangeOf(DocFields(udf)) :
            (lower(udf.store[i].type) = "boolean" /\ udf.store[i].text # "") =>
                udf._lookup[udf.store[i].name] =
                    Py("bool", lower(udf.store[i].text) = "true")

C31_TransportError ==
    (/\ last.op \in {"GET", "PUT", "POST"}
     /\ last.calls # NoCalls
     /\ last.args.response.status_code # 200) =>
        /\ last.result = "HTTPError"
        /\ last.args.root = NoRoot
        /\ last.args.response.content.tag = "exception" =>
              last.args.message =
                 [status |-> <<last.args.response.status_code>>,
                  parts |-> <<last.args.response.content.message>>
                                \o last.args.response.content.suggested]
        /\ last.args.response.content.tag = "text" =>
              last.args.message =
                 [status |-> <<>>,
                  parts |-> <<last.args.response.content.text>>]

\* C32 (decoding of absent data): on an entity whose document is loaded,
\* reading an element-text binding (string, integer, boolean, entity
\* reference) whose element is absent returns None, reading a list
\* binding with no matching element returns the empty list, and reading
\* an XML-attribute binding whose attribute is absent raises the
\* missing-field error.
C32_AbsentData ==
    (/\ last.op = "decode"
     /\ last.pre.root # NoRoot
     /\ last.args.d.tag = "date-received") =>
        CASE last.args.d.kind = "StringAttributeDescriptor" ->
                last.result = "KeyError"
          [] last.args.d.kind = "StringListDescriptor" ->
                last.result = "ok" /\ last.out = <<Py("list", <<>>)>>
          [] OTHER -> last.result = "ok" /\ last.out = <<PyNone>>

\* C33 (UDF index/document consistency): after any sequence of set,
\* delete and clear, the names in the index are the names of the backing
\* field elements, and each indexed value is the decoding of its
\* element's text under the element's type tag.
C33_IndexConsistency ==
    (/\ udf # NoDictionary
     /\ last.op \in {"__setitem__", "__delitem__", "clear"}) =>
        /\ DOMAIN udf._lookup =
              {udf.store[i].name : i \in RangeOf(DocFields(udf))}
        /\ \A i \in RangeOf(DocFields(udf)) :
              /\ udf.store[i].name \in DOMAIN udf._lookup
              /\ DecodeField(udf.store[i].type, udf.store[i].text) =
                    [result |-> "ok", value |-> udf._lookup[udf.store[i].name]]

\* C34 (rejected user-field write): when a set raises the type-mismatch
\* or the unsupported-type error, the index and the document are those
\* of before the call: get(name) returns what it returned before.
C34_RejectedWrite ==
    (/\ last.op = "__setitem__"
     /\ last.result \in {"TypeError", "NotImplementedError"}) =>
        /\ SameDictionary(udf, last.args.pre)
        /\ UdfDictionary_get(udf, last.args.key, PyNone) =
              UdfDictionary_get(last.args.pre, last.args.key, PyNone)

\* C40 (repeatable iteration): iterating a dictionary to exhaustion
\* twice, with no write in between, yields the same sequence of names
\* both times.
C40_RepeatableIteration ==
    [][(last.op = "__iter__" /\ last'.op = "__iter__") =>
          last'.out = last.out]_vars

\* C35 (failed fetch): when the Document Store call inside Entity.get is
\* answered with an error, the HTTP error reaches the caller, exactly one
\* request has been issued, and the entity's document and fetch_state
\* are those of before; the same holds of an attribute read that ends
\* in an HTTP error.
C35_FailedFetch ==
    (\/ /\ last.op = "get"
        /\ last.calls # NoCalls
        /\ last.args.content = NoRoot
     \/ /\ last.op = "read"
        /\ last.result = "HTTPError") =>
        /\ last.result = "HTTPError"
        /\ Len(last.calls) = 1
        /\ last.calls[1] = Call("GET", Url(last.pre.uri, <<>>), <<>>)
        /\ heap[last.obj].root = last.pre.root
        /\ heap[last.obj].fetch_state = last.pre.fetch_state

\* C35 witness: a forced fetch of an entity that holds a document has
\* failed, and the entity still holds that document.
C35_Witness ==
    /\ last.op = "get"
    /\ last.result = "HTTPError"
    /\ Len(last.calls) = 1
    /\ last.pre.root # NoRoot
    /\ heap[last.obj].root = last.pre.root
    /\ heap[last.obj].fetch_state = FETCH_STATE_DETAILS

\* C36 (document/state agreement): an initialised entity holds a loaded
\* document exactly when its fetch_state is not NONE, after construction
\* with any fetch_state, after Entity.get, after _create and create, and
\* after a save.
C36_DocumentStateAgreement ==
    \A o \in Objects :
        heap[o].lims =>
            (heap[o].root # NoRoot <=> heap[o].fetch_state # FETCH_STATE_NONE)

\* C37 (element-text binding writes): after a write through an
\* element-text binding on an entity with a loaded document, the
\* document holds the element with the written value as its text, and a
\* read of the same binding returns that value, whatever the bag holds.
C37_ElementTextWrite ==
    (/\ last.op = "write"
     /\ last.args.d.kind = "StringDescriptor"
     /\ last.args.d.tag = "name"
     /\ last.pre.root # NoRoot) =>
        /\ last.result = "ok"
        /\ NodeText(heap[last.obj].root, "name") = last.args.value
        /\ \A response \in Responses(heap[last.obj].uri) :
              /\ Descriptor__get__(last.args.d, heap[last.obj],
                                   response).result = "ok"
              /\ Descriptor__get__(last.args.d, heap[last.obj],
                                   response).value = last.args.value

\* C38 (building a detached entity): Entity._create with attributes of
\* the class returns a detached entity whose document is the root element
\* made locally, and issues no Document Store call; create then posts
\* once, and that POST is its only call.
C38_DetachedBuild ==
    /\ last.op = "_create" =>
          /\ last.result = "ok"
          /\ last.calls = NoCalls
          /\ heap[last.obj].uri = None
          /\ heap[last.obj].root # NoRoot
    /\ last.op = "create" =>
          /\ Len(last.calls) = 1
          /\ last.calls[1].method = "POST"

\* C39 (listing terminates): against a server whose next-page chain is
\* finite, a listing that has begun returns; one called without
\* start_index that returns normally has issued one GET per page, each
\* after the first to the URI the previous page names as its next page.
C39_ListingTerminates ==
    /\ (pc = "loop") ~> (pc = "idle")
    /\ []((/\ last.op \in ListKinds
           /\ last.result = "ok"
           /\ ~HasKey(last.args.params, "start-index")) =>
             /\ Len(last.calls) = Len(last.args.pages)
             /\ \A i \in 2 .. Len(last.calls) :
                   PreparedUrl(last.calls[i]) = last.args.ptrs[i - 1])

====
